---- MODULE Spec2Model ----
\* Verification model of the cost-effectiveness core
\* (src/econ/cost_effectiveness.py, class ECMOCostEffectivenessAnalysis).
\*
\* cfg     the configuration attributes of the model instance
\* rng     the state of the process-wide numpy generator
\* last    the last call on the model: operation, arguments, result
\* prevPsa the call of probabilistic_sensitivity_analysis before the last one
\* calls   the number of calls made on the instance
\* integrator  the ECMODataIntegrator (src/econ/data_integration.py): its
\*         patient_data and integrated_data tables
\* constructed  the configuration the constructor gave the instance
\* threads the analyses running interleaved on threads: the instances they
\*         work on and each thread's position, locals and rows
\*
\* Numbers are exact rationals [k, n, d] (k = "fin", n/d in lowest terms,
\* d > 0) extended with the float sentinels +inf and -inf and with the
\* outcome "raise" (a Python exception leaves the handler).
EXTENDS Integers, Naturals, Sequences, FiniteSets, TLC

VARIABLES cfg, rng, last, prevPsa, calls, integrator, constructed, threads

vars == <<cfg, rng, last, prevPsa, calls, integrator, constructed, threads>>

----------------------------------------------------------------------------
\* Bounds of the model.

MaxHorizon == 2

MaxPatients == 3

MaxParams == 2

MaxCalls == 3

MaxSims == 2

MaxSeed == 1

MaxStrata == 2

MaxYears == 3

RngPeriod == 5

----------------------------------------------------------------------------
\* Rational arithmetic.

Abs(x) == IF x < 0 THEN -x ELSE x

RECURSIVE GCD(_, _)
GCD(a, b) == IF b = 0 THEN a ELSE GCD(b, a % b)

Rat(n, d) ==
    LET s == IF d < 0 THEN -1 ELSE 1
        g == GCD(Abs(n), Abs(d))
    IN  [k |-> "fin", n |-> (s * n) \div g, d |-> (s * d) \div g]

Int2Num(i) == [k |-> "fin", n |-> i, d |-> 1]

PosInf == [k |-> "pinf", n |-> 0, d |-> 1]

NegInf == [k |-> "ninf", n |-> 0, d |-> 1]

Raised == [k |-> "raise", n |-> 0, d |-> 1]

Zero == Int2Num(0)

One == Int2Num(1)

IsFin(a) == a.k = "fin"

\* a special operand (sentinel or exception) is handed on unchanged
Lift2(a, b, r) == IF ~IsFin(a) THEN a ELSE IF ~IsFin(b) THEN b ELSE r

Add(a, b) ==
    LET g == GCD(a.d, b.d)
    IN  Lift2(a, b, Rat(a.n * (b.d \div g) + b.n * (a.d \div g), (a.d \div g) * b.d))

Neg(a) == IF IsFin(a) THEN [a EXCEPT !.n = -a.n] ELSE a

Sub(a, b) == Add(a, Neg(b))

Mul(a, b) ==
    LET g1 == GCD(Abs(a.n), b.d)
        g2 == GCD(Abs(b.n), a.d)
    IN  Lift2(a, b, Rat((a.n \div g1) * (b.n \div g2), (a.d \div g2) * (b.d \div g1)))

\* float division; a zero divisor raises ZeroDivisionError
Div(a, b) ==
    IF IsFin(a) /\ IsFin(b) /\ b.n = 0 THEN Raised
    ELSE Mul(a, [b EXCEPT !.n = IF b.n < 0 THEN -b.d ELSE b.d,
                          !.d = Abs(b.n)])

Le(a, b) == a.n * b.d <= b.n * a.d

Lt(a, b) == a.n * b.d < b.n * a.d

RECURSIVE Pow(_, _)
Pow(a, e) == IF e = 0 THEN One ELSE Mul(a, Pow(a, e - 1))

----------------------------------------------------------------------------
\* Model configuration (the attributes set by __init__).

ConfigAttrs ==
    {"icu_cost_per_day", "ward_cost_per_day", "ecmo_daily_consumable",
     "ecmo_setup_cost", "qaly_gain_per_survivor", "time_horizon_years",
     "discount_rate"}

DefaultConfig ==
    [icu_cost_per_day       |-> Int2Num(30000),
     ward_cost_per_day      |-> Int2Num(8000),
     ecmo_daily_consumable  |-> Int2Num(15000),
     ecmo_setup_cost        |-> Int2Num(100000),
     qaly_gain_per_survivor |-> Rat(3, 2),
     time_horizon_years     |-> 1,
     discount_rate          |-> Rat(3, 100)]

\* configurations a caller constructs the model with: the defaults with a
\* horizon and a discount rate, and custom unit costs
ConfigSet ==
    { [DefaultConfig EXCEPT !.time_horizon_years = h, !.discount_rate = r] :
        h \in 1..MaxHorizon, r \in {Zero, Rat(3, 100)} }
    \cup { [DefaultConfig EXCEPT !.icu_cost_per_day = Int2Num(50000),
                                 !.ward_cost_per_day = Zero,
                                 !.discount_rate = Rat(1, 20)] }

----------------------------------------------------------------------------
\* CostModel, EffectivenessModel, RatioCalculator.

\* variant: the one-time set-up cost is left out
compute_total_cost_NoSetup(c, icu_los_days, ward_los_days, ecmo_days) ==
    Add(Add(Mul(icu_los_days, c.icu_cost_per_day),
            Mul(ward_los_days, c.ward_cost_per_day)),
        Mul(ecmo_days, c.ecmo_daily_consumable))

compute_total_cost(c, icu_los_days, ward_los_days, ecmo_days) ==
    LET icu_cost  == Mul(icu_los_days, c.icu_cost_per_day)
        ward_cost == Mul(ward_los_days, c.ward_cost_per_day)
        ecmo_cost == Add(c.ecmo_setup_cost, Mul(ecmo_days, c.ecmo_daily_consumable))
    IN  Add(Add(icu_cost, ward_cost), ecmo_cost)

\* variant: one year of discounting whatever the horizon
compute_qaly_OneYear(c, survival_rate, quality_of_life) ==
    Mul(Mul(Mul(survival_rate, c.qaly_gain_per_survivor), quality_of_life),
        Div(One, Add(One, c.discount_rate)))

compute_qaly(c, survival_rate, quality_of_life) ==
    LET discount_factor ==
            Div(One, Pow(Add(One, c.discount_rate), c.time_horizon_years))
    IN  Mul(Mul(Mul(survival_rate, c.qaly_gain_per_survivor), quality_of_life),
            discount_factor)

\* variant: only a negative QALY is guarded
compute_cer_StrictGuard(total_cost, qaly) ==
    IF Lt(qaly, Zero) THEN PosInf ELSE Div(total_cost, qaly)

compute_cer(total_cost, qaly) ==
    IF Le(qaly, Zero) THEN PosInf ELSE Div(total_cost, qaly)

\* variant: equal cost counts as dominated
compute_icer_GeqCost(cost_intervention, cost_comparator, qaly_intervention, qaly_comparator) ==
    LET delta_cost == Sub(cost_intervention, cost_comparator)
        delta_qaly == Sub(qaly_intervention, qaly_comparator)
    IN  IF Le(delta_qaly, Zero)
        THEN (IF Le(Zero, delta_cost) THEN PosInf ELSE NegInf)
        ELSE Div(delta_cost, delta_qaly)

compute_icer(cost_intervention, cost_comparator, qaly_intervention, qaly_comparator) ==
    LET delta_cost == Sub(cost_intervention, cost_comparator)
        delta_qaly == Sub(qaly_intervention, qaly_comparator)
    IN  IF Le(delta_qaly, Zero)
        THEN (IF Lt(Zero, delta_cost) THEN PosInf ELSE NegInf)
        ELSE Div(delta_cost, delta_qaly)

----------------------------------------------------------------------------
\* QuintileAggregator.

RECURSIVE SortedSeq(_)
SortedSeq(S) ==
    IF S = {} THEN <<>>
    ELSE LET m == CHOOSE x \in S : \A y \in S : x <= y
         IN  <<m>> \o SortedSeq(S \ {m})

RECURSIVE SumSeq(_)
SumSeq(s) == IF s = <<>> THEN Zero ELSE Add(Head(s), SumSeq(Tail(s)))

\* pandas Series.mean()
Mean(s) == Div(SumSeq(s), Int2Num(Len(s)))

Column(data, col) == [i \in 1..Len(data) |-> data[i][col]]

\* variant: the cost per survivor divides without the survival guard
QuintileRow_UnguardedSurvivor(c, quintile, qdata) ==
    LET mean_icu_los   == Mean(Column(qdata, "icu_los_days"))
        mean_ward_los  == Mean(Column(qdata, "ward_los_days"))
        mean_ecmo_days == Mean(Column(qdata, "ecmo_days"))
        survival_rate  == Mean(Column(qdata, "survival_to_discharge"))
        total_cost     == compute_total_cost(c, mean_icu_los, mean_ward_los, mean_ecmo_days)
        qaly           == compute_qaly(c, survival_rate, One)
    IN  [quintile           |-> quintile,
         n_patients         |-> Len(qdata),
         survival_rate      |-> survival_rate,
         mean_icu_los_days  |-> mean_icu_los,
         mean_ward_los_days |-> mean_ward_los,
         mean_ecmo_days     |-> mean_ecmo_days,
         total_cost         |-> total_cost,
         qaly               |-> qaly,
         cer                |-> compute_cer(total_cost, qaly),
         cost_per_survivor  |-> Div(total_cost, survival_rate)]

QuintileRow(c, quintile, qdata) ==
    LET mean_icu_los   == Mean(Column(qdata, "icu_los_days"))
        mean_ward_los  == Mean(Column(qdata, "ward_los_days"))
        mean_ecmo_days == Mean(Column(qdata, "ecmo_days"))
        survival_rate  == Mean(Column(qdata, "survival_to_discharge"))
        n_patients     == Len(qdata)
        total_cost     == compute_total_cost(c, mean_icu_los, mean_ward_los, mean_ecmo_days)
        qaly           == compute_qaly(c, survival_rate, One)
        cer            == compute_cer(total_cost, qaly)
    IN  [quintile           |-> quintile,
         n_patients         |-> n_patients,
         survival_rate      |-> survival_rate,
         mean_icu_los_days  |-> mean_icu_los,
         mean_ward_los_days |-> mean_ward_los,
         mean_ecmo_days     |-> mean_ecmo_days,
         total_cost         |-> total_cost,
         qaly               |-> qaly,
         cer                |-> cer,
         cost_per_survivor  |-> IF Lt(Zero, survival_rate)
                                THEN Div(total_cost, survival_rate) ELSE PosInf]

\* variant: unique() without sorted(), the order of first appearance
QuintileOrder_Unsorted(quintile_data) ==
    LET f[i \in 0..Len(quintile_data)] ==
            IF i = 0 THEN <<>>
            ELSE IF \E j \in 1..(i - 1) :
                        quintile_data[j].risk_quintile = quintile_data[i].risk_quintile
                 THEN f[i - 1]
                 ELSE Append(f[i - 1], quintile_data[i].risk_quintile)
    IN  f[Len(quintile_data)]

\* the quintiles in the order the loop visits them: sorted(unique())
QuintileOrder(quintile_data) ==
    SortedSeq({quintile_data[i].risk_quintile : i \in 1..Len(quintile_data)})

analyze_by_quintile(c, quintile_data) ==
    LET order == QuintileOrder(quintile_data)
    IN  [j \in 1..Len(order) |->
            QuintileRow(c, order[j],
                        SelectSeq(quintile_data, LAMBDA p : p.risk_quintile = order[j]))]

\* variant: the baseline row goes through compute_icer like the others
IcerRow_NoConvention(row, baseline, baseline_quintile) ==
    [quintile         |-> row.quintile,
     icer_vs_baseline |-> compute_icer(row.total_cost, baseline.total_cost,
                                       row.qaly, baseline.qaly),
     incremental_cost |-> Sub(row.total_cost, baseline.total_cost),
     incremental_qaly |-> Sub(row.qaly, baseline.qaly)]

IcerRow(row, baseline, baseline_quintile) ==
    LET icer == IF row.quintile = baseline_quintile
                THEN Zero
                ELSE compute_icer(row.total_cost, baseline.total_cost,
                                  row.qaly, baseline.qaly)
    IN  [quintile         |-> row.quintile,
         icer_vs_baseline |-> icer,
         incremental_cost |-> Sub(row.total_cost, baseline.total_cost),
         incremental_qaly |-> Sub(row.qaly, baseline.qaly)]

\* the default of the baseline_quintile argument
DefaultBaselineQuintile == 1

\* .iloc[0] of an empty selection raises IndexError
compute_icer_by_quintile(quintile_results, baseline_quintile) ==
    LET sel == SelectSeq(quintile_results, LAMBDA r : r.quintile = baseline_quintile)
    IN  IF sel = <<>>
        THEN [ok |-> FALSE, rows |-> <<>>]
        ELSE [ok |-> TRUE,
              rows |-> [i \in 1..Len(quintile_results) |->
                           IcerRow(quintile_results[i], sel[1], baseline_quintile)]]

----------------------------------------------------------------------------
\* SensitivityEngine, one-way.

CaseKeys == {"icu_los", "ward_los", "ecmo_days", "survival_rate"}

\* setattr(self, name, value); an attribute the calculators never read is
\* not part of cfg
SetAttr(c, name, value) ==
    IF name \in DOMAIN c THEN [c EXCEPT ![name] = value] ELSE c

Outcome(c, case) ==
    LET total_cost == compute_total_cost(c, case.icu_los, case.ward_los, case.ecmo_days)
        qaly       == compute_qaly(c, case.survival_rate, One)
    IN  [total_cost |-> total_cost, qaly |-> qaly, cer |-> compute_cer(total_cost, qaly)]

Scenarios == <<"low", "base", "high">>

\* the loop body for one (parameter, scenario): the row and the configuration
\* it leaves behind
SensitivityStep(c, base_case, param, s) ==
    LET value == param.values[s]
        case  == IF param.name \in CaseKeys
                 THEN [base_case EXCEPT ![param.name] = value]
                 ELSE base_case
        c2    == IF param.name \in CaseKeys THEN c ELSE SetAttr(c, param.name, value)
        o     == Outcome(c2, case)
    IN  [row |-> [parameter |-> param.name, scenario |-> Scenarios[s], value |-> value,
                  total_cost |-> o.total_cost, qaly |-> o.qaly, cer |-> o.cer],
         cfg |-> c2]

\* parameters is the dict in iteration order; the result is the table and
\* the configuration of the model when the call returns
sensitivity_analysis(c, base_case, parameters) ==
    LET N == 3 * Len(parameters)
        run[k \in 0..N] ==
            IF k = 0 THEN [rows |-> <<>>, cfg |-> c]
            ELSE LET prev == run[k - 1]
                     st   == SensitivityStep(prev.cfg, base_case,
                                             parameters[((k - 1) \div 3) + 1],
                                             ((k - 1) % 3) + 1)
                 IN  [rows |-> Append(prev.rows, st.row), cfg |-> st.cfg]
    IN  run[N]

----------------------------------------------------------------------------
\* ProbabilisticSensitivityEngine.

\* np.random.seed(seed)
SeedState(seed) == seed % RngPeriod

\* the generator's state after one draw
NextRng(r) == (r + 1) % RngPeriod

KnownKinds == {"normal", "lognormal", "gamma", "beta", "uniform"}

\* the variate numpy returns in generator state r: a function of the state,
\* the kind and the distribution parameters, inside the kind's support
Sample(kind, params, r) ==
    CASE kind = "normal"    -> Add(params[1], Mul(params[2], Int2Num((r % 5) - 2)))
      [] kind = "uniform"   -> Add(params[1], Mul(Sub(params[2], params[1]), Rat(r % 4, 4)))
      [] kind = "beta"      -> Div(Add(params[1], Rat((r % 3) - 1, 2)),
                                   Add(params[1], params[2]))
      [] kind = "gamma"     -> Mul(Mul(params[1], params[2]), Rat(1 + (r % 3), 2))
      [] kind = "lognormal" -> Mul(params[1], Rat(1 + (r % 3), 2))

Max(a, b) == IF Lt(a, b) THEN b ELSE a

Min(a, b) == IF Lt(b, a) THEN b ELSE a

\* variant: the sampled value is used as drawn
Clamp_None(name, value) == value

Clamp(name, value) ==
    IF name # "survival_rate"
    THEN Max(Rat(1, 1000), value)
    ELSE Min(Max(value, Rat(1, 1000)), Rat(999, 1000))

\* variant: an unknown distribution kind ends the iteration's sampling
SampleParams_UnknownBreaks(c, r, base_case, dists) ==
    LET it[j \in 0..Len(dists)] ==
            IF j = 0 THEN [cfg |-> c, rng |-> r, case |-> base_case, open |-> TRUE]
            ELSE LET prev == it[j - 1]
                     d    == dists[j]
                 IN  IF ~prev.open \/ d.kind \notin KnownKinds
                     THEN [prev EXCEPT !.open = FALSE]
                     ELSE LET value == Clamp(d.name, Sample(d.kind, d.params, prev.rng))
                          IN  IF d.name \in DOMAIN prev.case
                              THEN [cfg  |-> prev.cfg,
                                    rng  |-> NextRng(prev.rng),
                                    case |-> [prev.case EXCEPT ![d.name] = value],
                                    open |-> TRUE]
                              ELSE [cfg  |-> SetAttr(prev.cfg, d.name, value),
                                    rng  |-> NextRng(prev.rng),
                                    case |-> prev.case,
                                    open |-> TRUE]
    IN  it[Len(dists)]

\* the inner loop: every declared parameter is sampled in dict order
SampleParams(c, r, base_case, dists) ==
    LET it[j \in 0..Len(dists)] ==
            IF j = 0 THEN [cfg |-> c, rng |-> r, case |-> base_case]
            ELSE LET prev == it[j - 1]
                     d    == dists[j]
                 IN  IF d.kind \notin KnownKinds
                     THEN prev
                     ELSE LET value == Clamp(d.name, Sample(d.kind, d.params, prev.rng))
                          IN  IF d.name \in DOMAIN prev.case
                              THEN [cfg  |-> prev.cfg,
                                    rng  |-> NextRng(prev.rng),
                                    case |-> [prev.case EXCEPT ![d.name] = value]]
                              ELSE [cfg  |-> SetAttr(prev.cfg, d.name, value),
                                    rng  |-> NextRng(prev.rng),
                                    case |-> prev.case]
    IN  it[Len(dists)]

WtpThresholds == {500000, 1000000, 1500000, 2000000, 3000000}

PsaRow(i, o) ==
    [iteration |-> i, total_cost |-> o.total_cost, qaly |-> o.qaly, cer |-> o.cer,
     nmb |-> [wtp \in WtpThresholds |-> Sub(Mul(Int2Num(wtp), o.qaly), o.total_cost)]]

\* r is the generator state at the call; the result is the table, the
\* configuration and the generator state when the call returns
probabilistic_sensitivity_analysis(c, r, base_case, dists, n_simulations, seed) ==
    LET run[i \in 0..n_simulations] ==
            IF i = 0 THEN [rows |-> <<>>, cfg |-> c, rng |-> SeedState(seed)]
            ELSE LET prev == run[i - 1]
                     s    == SampleParams(prev.cfg, prev.rng, base_case, dists)
                 IN  [rows |-> Append(prev.rows, PsaRow(i - 1, Outcome(s.cfg, s.case))),
                      cfg  |-> s.cfg,
                      rng  |-> s.rng]
    IN  run[n_simulations]

\* warnings.warn names the kind of every declared parameter of an unknown
\* kind, once per iteration, in dict order
PsaWarnings(dists, n_simulations) ==
    LET unknown == SelectSeq(dists, LAMBDA d : d.kind \notin KnownKinds)
        w[i \in 0..n_simulations] ==
            IF i = 0 THEN <<>>
            ELSE w[i - 1] \o [j \in 1..Len(unknown) |-> unknown[j].kind]
    IN  w[n_simulations]

----------------------------------------------------------------------------
\* AcceptabilityCurve (compute_ceac).

\* variant: the simulated costs and QALYs are used as drawn
CeacSims_NoClamp(row, n_simulations, cost_std_pct, qaly_std_pct, r) ==
    [cost_sim |-> [i \in 1..n_simulations |->
                      Sample("normal",
                             <<row.total_cost, Mul(row.total_cost, cost_std_pct)>>,
                             (r + i - 1) % RngPeriod)],
     qaly_sim |-> [i \in 1..n_simulations |->
                      Sample("normal",
                             <<row.qaly, Mul(row.qaly, qaly_std_pct)>>,
                             (r + n_simulations + i - 1) % RngPeriod)],
     rng      |-> (r + 2 * n_simulations) % RngPeriod]

\* the draws of one stratum: n_simulations costs, then n_simulations QALYs,
\* from the generator in state r, floored at 0 and at 0.001
CeacSims(row, n_simulations, cost_std_pct, qaly_std_pct, r) ==
    [cost_sim |-> [i \in 1..n_simulations |->
                      Max(Sample("normal",
                                 <<row.total_cost, Mul(row.total_cost, cost_std_pct)>>,
                                 (r + i - 1) % RngPeriod),
                          Zero)],
     qaly_sim |-> [i \in 1..n_simulations |->
                      Max(Sample("normal",
                                 <<row.qaly, Mul(row.qaly, qaly_std_pct)>>,
                                 (r + n_simulations + i - 1) % RngPeriod),
                          Rat(1, 1000))],
     rng      |-> (r + 2 * n_simulations) % RngPeriod]

\* variant: np.sum in place of np.mean
CeacPoint_Sum(quintile, wtp, sims, n_simulations) ==
    [quintile      |-> quintile,
     wtp_threshold |-> wtp,
     probability_cost_effective |->
         Int2Num(Cardinality({i \in 1..n_simulations :
                     Lt(Zero, Sub(Mul(wtp, sims.qaly_sim[i]), sims.cost_sim[i]))}))]

\* np.mean(nmb > 0) over the stratum's draws
CeacPoint(quintile, wtp, sims, n_simulations) ==
    [quintile      |-> quintile,
     wtp_threshold |-> wtp,
     probability_cost_effective |->
         Rat(Cardinality({i \in 1..n_simulations :
                     Lt(Zero, Sub(Mul(wtp, sims.qaly_sim[i]), sims.cost_sim[i]))}),
             n_simulations)]

\* variant: every stratum draws from the generator state of the call
compute_ceac_SameDraws(quintile_results, wtp_thresholds, n_simulations, cost_std_pct, qaly_std_pct, r) ==
    LET run[j \in 0..Len(quintile_results)] ==
            IF j = 0 THEN [rows |-> <<>>, rng |-> r]
            ELSE LET prev == run[j - 1]
                     row  == quintile_results[j]
                     sims == CeacSims(row, n_simulations, cost_std_pct,
                                      qaly_std_pct, r)
                 IN  [rows |-> prev.rows \o
                                 [t \in 1..Len(wtp_thresholds) |->
                                     CeacPoint(row.quintile, wtp_thresholds[t],
                                               sims, n_simulations)],
                      rng  |-> sims.rng]
    IN  run[Len(quintile_results)]

\* r is the generator state at the call; the result is the table and the
\* generator state when the call returns
compute_ceac(quintile_results, wtp_thresholds, n_simulations, cost_std_pct, qaly_std_pct, r) ==
    LET run[j \in 0..Len(quintile_results)] ==
            IF j = 0 THEN [rows |-> <<>>, rng |-> r]
            ELSE LET prev == run[j - 1]
                     row  == quintile_results[j]
                     sims == CeacSims(row, n_simulations, cost_std_pct,
                                      qaly_std_pct, prev.rng)
                 IN  [rows |-> prev.rows \o
                                 [t \in 1..Len(wtp_thresholds) |->
                                     CeacPoint(row.quintile, wtp_thresholds[t],
                                               sims, n_simulations)],
                      rng  |-> sims.rng]
    IN  run[Len(quintile_results)]

----------------------------------------------------------------------------
\* SensitivityEngine, two-way.

\* variant: the second parameter is left at its base value
TwoWayStep_Param1Only(c, base_case, param1_name, p1_val, param2_name, p2_val) ==
    LET case == IF param1_name \in DOMAIN base_case
                THEN [base_case EXCEPT ![param1_name] = p1_val] ELSE base_case
        c1   == IF param1_name \in DOMAIN base_case THEN c
                ELSE SetAttr(c, param1_name, p1_val)
        o    == Outcome(c1, case)
    IN  [row |-> [params |-> [nm \in {param1_name, param2_name} |->
                                 IF nm = param2_name THEN p2_val ELSE p1_val],
                  total_cost |-> o.total_cost, qaly |-> o.qaly, cer |-> o.cer],
         cfg |-> c1]

\* the loop body for one grid point: the row (a dict keyed by the two
\* parameter names) and the configuration it leaves behind
TwoWayStep(c, base_case, param1_name, p1_val, param2_name, p2_val) ==
    LET case1 == IF param1_name \in DOMAIN base_case
                 THEN [base_case EXCEPT ![param1_name] = p1_val] ELSE base_case
        c1    == IF param1_name \in DOMAIN base_case THEN c
                 ELSE SetAttr(c, param1_name, p1_val)
        case2 == IF param2_name \in DOMAIN case1
                 THEN [case1 EXCEPT ![param2_name] = p2_val] ELSE case1
        c2    == IF param2_name \in DOMAIN case1 THEN c1
                 ELSE SetAttr(c1, param2_name, p2_val)
        o     == Outcome(c2, case2)
    IN  [row |-> [params |-> [nm \in {param1_name, param2_name} |->
                                 IF nm = param2_name THEN p2_val ELSE p1_val],
                  total_cost |-> o.total_cost, qaly |-> o.qaly, cer |-> o.cer],
         cfg |-> c2]

two_way_sensitivity_analysis(c, base_case, param1_name, param1_range, param2_name, param2_range) ==
    LET n2 == Len(param2_range)
        N  == Len(param1_range) * n2
        run[k \in 0..N] ==
            IF k = 0 THEN [rows |-> <<>>, cfg |-> c]
            ELSE LET prev == run[k - 1]
                     st   == TwoWayStep(prev.cfg, base_case,
                                        param1_name, param1_range[((k - 1) \div n2) + 1],
                                        param2_name, param2_range[((k - 1) % n2) + 1])
                 IN  [rows |-> Append(prev.rows, st.row), cfg |-> st.cfg]
    IN  run[N]

----------------------------------------------------------------------------
\* ValueOfInformation.

\* int(x): truncation toward zero
Trunc(a) == IF a.n >= 0 THEN a.n \div a.d ELSE -((-a.n) \div a.d)

RECURSIVE MaxSeq(_)
MaxSeq(s) == IF Len(s) = 1 THEN s[1] ELSE Max(Head(s), MaxSeq(Tail(s)))

\* sum([1 / (1 + discount_rate) ** t for t in range(time_horizon_years)])
AnnuityFactor(c, time_horizon_years) ==
    SumSeq([k \in 1..time_horizon_years |->
               Div(One, Pow(Add(One, c.discount_rate), k - 1))])

\* the NMB series: the table's column nmb_wtp_<int(wtp)> when it has one,
\* recomputed from the qaly and total_cost columns otherwise
VoiNmb(psa_results, wtp_threshold) ==
    LET col == Trunc(wtp_threshold)
    IN  [i \in 1..Len(psa_results) |->
            IF col \in DOMAIN psa_results[i].nmb
            THEN psa_results[i].nmb[col]
            ELSE Sub(Mul(wtp_threshold, psa_results[i].qaly),
                     psa_results[i].total_cost)]

\* variant: nmb.min() in place of nmb.max(), and the difference is not
\* floored at 0
value_of_information_analysis_Unfloored(c, psa_results, wtp_threshold, population_size, time_horizon_years) ==
    LET nmb              == VoiNmb(psa_results, wtp_threshold)
        expected_nmb     == Mean(nmb)
        perfect_info_nmb == Neg(MaxSeq([i \in 1..Len(nmb) |-> Neg(nmb[i])]))
        evpi_per_person  == Sub(perfect_info_nmb, expected_nmb)
    IN  [evpi_per_person    |-> evpi_per_person,
         evpi_population    |-> Mul(Mul(evpi_per_person, Int2Num(population_size)),
                                    AnnuityFactor(c, time_horizon_years)),
         expected_nmb       |-> expected_nmb,
         perfect_info_nmb   |-> perfect_info_nmb,
         wtp_threshold      |-> wtp_threshold,
         population_size    |-> population_size,
         time_horizon_years |-> time_horizon_years]

value_of_information_analysis(c, psa_results, wtp_threshold, population_size, time_horizon_years) ==
    LET nmb              == VoiNmb(psa_results, wtp_threshold)
        expected_nmb     == Mean(nmb)
        perfect_info_nmb == MaxSeq(nmb)
        evpi_per_person  == Max(Zero, Sub(perfect_info_nmb, expected_nmb))
    IN  [evpi_per_person    |-> evpi_per_person,
         evpi_population    |-> Mul(Mul(evpi_per_person, Int2Num(population_size)),
                                    AnnuityFactor(c, time_horizon_years)),
         expected_nmb       |-> expected_nmb,
         perfect_info_nmb   |-> perfect_info_nmb,
         wtp_threshold      |-> wtp_threshold,
         population_size    |-> population_size,
         time_horizon_years |-> time_horizon_years]

----------------------------------------------------------------------------
\* BudgetImpact.

\* variant: the ramp is not divided by the number of years
Uptake_NoRamp(uptake_rate, year, years) ==
    Min(Mul(uptake_rate, Int2Num(year)), One)

\* current_year_uptake = min(uptake_rate * (year / years), 1.0)
Uptake(uptake_rate, year, years) ==
    Min(Mul(uptake_rate, Rat(year, years)), One)

BudgetYear(c, current_scenario, new_scenario, population_size, uptake_rate, years, year) ==
    LET current_year_uptake == Uptake(uptake_rate, year, years)
        n_current == Trunc(Mul(Int2Num(population_size), Sub(One, current_year_uptake)))
        n_new     == Trunc(Mul(Int2Num(population_size), current_year_uptake))
        cost_current_per_patient ==
            compute_total_cost(c, current_scenario.icu_los, current_scenario.ward_los,
                               current_scenario.ecmo_days)
        cost_new_per_patient ==
            compute_total_cost(c, new_scenario.icu_los, new_scenario.ward_los,
                               new_scenario.ecmo_days)
        total_budget == Add(Mul(cost_current_per_patient, Int2Num(n_current)),
                            Mul(cost_new_per_patient, Int2Num(n_new)))
        incremental_cost ==
            Mul(Sub(cost_new_per_patient, cost_current_per_patient), Int2Num(n_new))
        discount_factor == Div(One, Pow(Add(One, c.discount_rate), year - 1))
        qaly_current_pp == compute_qaly(c, current_scenario.survival_rate, One)
        qaly_new_pp     == compute_qaly(c, new_scenario.survival_rate, One)
        incremental_qaly == Mul(Sub(qaly_new_pp, qaly_current_pp), Int2Num(n_new))
    IN  [year                          |-> year,
         n_current_practice            |-> n_current,
         n_new_intervention            |-> n_new,
         uptake_rate                   |-> current_year_uptake,
         total_budget                  |-> total_budget,
         incremental_budget            |-> incremental_cost,
         discounted_total_budget       |-> Mul(total_budget, discount_factor),
         discounted_incremental_budget |-> Mul(incremental_cost, discount_factor),
         total_qaly                    |-> Add(Mul(qaly_current_pp, Int2Num(n_current)),
                                               Mul(qaly_new_pp, Int2Num(n_new))),
         incremental_qaly              |-> incremental_qaly,
         icer                          |-> IF Lt(Zero, incremental_qaly)
                                           THEN Div(incremental_cost, incremental_qaly)
                                           ELSE PosInf]

\* variant: the years are listed from the last to the first
budget_impact_analysis_Descending(c, current_scenario, new_scenario, population_size, uptake_rate, years) ==
    [i \in 1..years |->
        BudgetYear(c, current_scenario, new_scenario, population_size, uptake_rate,
                   years, years + 1 - i)]

budget_impact_analysis(c, current_scenario, new_scenario, population_size, uptake_rate, years) ==
    [year \in 1..years |->
        BudgetYear(c, current_scenario, new_scenario, population_size, uptake_rate,
                   years, year)]

----------------------------------------------------------------------------
\* The demonstration's cumulative budget impact.

\* variant: the average is the plain quotient
CumulativeImpact_Unguarded(budget_results) ==
    LET total_incremental == SumSeq(Column(budget_results, "discounted_incremental_budget"))
        total_qaly_gain   == SumSeq(Column(budget_results, "incremental_qaly"))
    IN  [total_incremental |-> total_incremental,
         total_qaly_gain   |-> total_qaly_gain,
         avg_icer          |-> Div(total_incremental, total_qaly_gain)]

\* the cumulative impact the demonstration derives from the yearly rows:
\* avg_icer = total_incremental / total_qaly_gain if total_qaly_gain > 0
\* else float('inf')
CumulativeImpact(budget_results) ==
    LET total_incremental == SumSeq(Column(budget_results, "discounted_incremental_budget"))
        total_qaly_gain   == SumSeq(Column(budget_results, "incremental_qaly"))
    IN  [total_incremental |-> total_incremental,
         total_qaly_gain   |-> total_qaly_gain,
         avg_icer          |-> IF Lt(Zero, total_qaly_gain)
                               THEN Div(total_incremental, total_qaly_gain)
                               ELSE PosInf]

----------------------------------------------------------------------------
\* The constructor's currency validation.

CURRENCY_RATES == [TWD |-> One, USD |-> Rat(63, 2), EUR |-> Rat(171, 5)]

\* variant: the currency is stored without validation
ECMOCostEffectivenessAnalysis_Unvalidated(currency) ==
    [raised |-> FALSE, error |-> "", returned |-> TRUE, currency |-> currency]

\* the call ECMOCostEffectivenessAnalysis(currency=...): whether __init__
\* raised, the error, whether the caller receives an instance, and the
\* currency attribute __init__ assigned (it is assigned before the validation)
ECMOCostEffectivenessAnalysis(currency) ==
    IF currency \notin DOMAIN CURRENCY_RATES
    THEN [raised |-> TRUE, error |-> "ValueError: Unsupported currency",
          returned |-> FALSE, currency |-> currency]
    ELSE [raised |-> FALSE, error |-> "", returned |-> TRUE, currency |-> currency]

----------------------------------------------------------------------------
\* ECMODataIntegrator (src/econ/data_integration.py). A table is the set of
\* its column names; loaded = FALSE is None.

NoTable == [loaded |-> FALSE, columns |-> {}]

\* the state __init__ leaves
NewIntegrator == [patient_data |-> NoTable, integrated_data |-> NoTable]

required_cols ==
    <<"risk_quintile", "icu_los_days", "ward_los_days", "ecmo_days",
      "survival_to_discharge">>

CostColumns == {"icu_cost", "ward_cost", "ecmo_cost", "total_cost"}

\* compute_costs adds the cost columns to patient_data in place
compute_costs(g) ==
    [g EXCEPT !.patient_data.columns = @ \cup CostColumns]

\* variant: the error names the first missing column only
prepare_for_cea_FirstMissing(g) ==
    LET missing_cols == SelectSeq(required_cols,
                                  LAMBDA col : col \notin g.patient_data.columns)
    IN  IF ~g.patient_data.loaded
        THEN [integrator |-> g, raised |-> TRUE,
              error |-> "ValueError: Patient data not loaded.", missing |-> <<>>]
        ELSE IF missing_cols # <<>>
        THEN [integrator |-> g, raised |-> TRUE,
              error |-> "ValueError: Missing required columns",
              missing |-> <<missing_cols[1]>>]
        ELSE LET g1 == IF "total_cost" \notin g.patient_data.columns
                       THEN compute_costs(g) ELSE g
                 g2 == [g1 EXCEPT !.integrated_data = g1.patient_data]
             IN  IF "mode" \notin g2.integrated_data.columns
                 THEN [integrator |-> g2, raised |-> TRUE,
                       error |-> "KeyError: mode", missing |-> <<>>]
                 ELSE [integrator |-> g2, raised |-> FALSE, error |-> "",
                       missing |-> <<>>]

\* the integrator when the call returns or raises, the error and the
\* columns the error message lists; the summary printed after the copy
\* reads the mode column
prepare_for_cea(g) ==
    LET missing_cols == SelectSeq(required_cols,
                                  LAMBDA col : col \notin g.patient_data.columns)
    IN  IF ~g.patient_data.loaded
        THEN [integrator |-> g, raised |-> TRUE,
              error |-> "ValueError: Patient data not loaded.", missing |-> <<>>]
        ELSE IF missing_cols # <<>>
        THEN [integrator |-> g, raised |-> TRUE,
              error |-> "ValueError: Missing required columns",
              missing |-> missing_cols]
        ELSE LET g1 == IF "total_cost" \notin g.patient_data.columns
                       THEN compute_costs(g) ELSE g
                 g2 == [g1 EXCEPT !.integrated_data = g1.patient_data]
             IN  IF "mode" \notin g2.integrated_data.columns
                 THEN [integrator |-> g2, raised |-> TRUE,
                       error |-> "KeyError: mode", missing |-> <<>>]
                 ELSE [integrator |-> g2, raised |-> FALSE, error |-> "",
                       missing |-> <<>>]

----------------------------------------------------------------------------
\* Inputs of the calls.

DaySet == {Zero, Rat(1, 2), Int2Num(5), Int2Num(7), Int2Num(10)}

SurvivalSet == {Zero, Rat(1, 2), Rat(11, 20), One}

QualitySet == {Zero, Rat(1, 2), One}

CostSet == {Zero, Int2Num(100), Int2Num(200), Int2Num(545000)}

QalySet == {Int2Num(-1), Zero, Rat(1, 2), Rat(3, 2)}

QuintileSet == {1, 2, 3}

\* length of stay and outcome of a patient
ProfileSet ==
    { [icu |-> Int2Num(10), ward |-> Int2Num(5), ecmo |-> Int2Num(7), surv |-> One],
      [icu |-> Int2Num(10), ward |-> Int2Num(5), ecmo |-> Int2Num(7), surv |-> Zero],
      [icu |-> Int2Num(2),  ward |-> Zero,       ecmo |-> Int2Num(1), surv |-> One] }

PatientSet ==
    { [risk_quintile |-> q, icu_los_days |-> l.icu, ward_los_days |-> l.ward,
       ecmo_days |-> l.ecmo, survival_to_discharge |-> l.surv] :
        q \in QuintileSet, l \in ProfileSet }

PatientTables == UNION { [1..n -> PatientSet] : n \in 0..MaxPatients }

NoCall == [op |-> "none", args |-> <<>>, res |-> <<>>]

\* no analysis is running on a thread
NoThreads == <<>>

----------------------------------------------------------------------------
\* The calculators and the aggregator: each action is one call on the model.
\* These calls read the configuration and change nothing, so a behaviour is
\* one call on a model in any constructed configuration (and the incremental
\* analysis of the table the aggregator returned).

InitPure ==
    /\ cfg \in ConfigSet
    /\ rng = 0
    /\ last = NoCall
    /\ prevPsa = NoCall
    /\ calls = 0
    /\ integrator = NewIntegrator
    /\ constructed = cfg
    /\ threads = NoThreads

CallTotalCost ==
    /\ last.op = "none"
    /\ \E icu \in DaySet, ward \in DaySet, ecmo \in DaySet :
        /\ last' = [op |-> "compute_total_cost",
                    args |-> [icu_los_days |-> icu, ward_los_days |-> ward,
                              ecmo_days |-> ecmo],
                    res |-> compute_total_cost(cfg, icu, ward, ecmo)]
        /\ UNCHANGED <<cfg, rng, prevPsa, calls, integrator, constructed, threads>>

CallQaly ==
    /\ last.op = "none"
    /\ \E s \in SurvivalSet, q \in QualitySet :
        /\ last' = [op |-> "compute_qaly",
                    args |-> [survival_rate |-> s, quality_of_life |-> q],
                    res |-> compute_qaly(cfg, s, q)]
        /\ UNCHANGED <<cfg, rng, prevPsa, calls, integrator, constructed, threads>>

CallCer ==
    /\ last.op = "none"
    /\ \E cost \in CostSet, qaly \in QalySet :
        /\ last' = [op |-> "compute_cer",
                    args |-> [total_cost |-> cost, qaly |-> qaly],
                    res |-> compute_cer(cost, qaly)]
        /\ UNCHANGED <<cfg, rng, prevPsa, calls, integrator, constructed, threads>>

CallIcer ==
    /\ last.op = "none"
    /\ \E ca \in CostSet, cb \in CostSet, qa \in QalySet, qb \in QalySet :
        /\ last' = [op |-> "compute_icer",
                    args |-> [cost_intervention |-> ca, cost_comparator |-> cb,
                              qaly_intervention |-> qa, qaly_comparator |-> qb],
                    res |-> compute_icer(ca, cb, qa, qb)]
        /\ UNCHANGED <<cfg, rng, prevPsa, calls, integrator, constructed, threads>>

CallAnalyzeByQuintile ==
    /\ last.op = "none"
    /\ \E data \in PatientTables :
        /\ last' = [op |-> "analyze_by_quintile",
                    args |-> [quintile_data |-> data],
                    res |-> analyze_by_quintile(cfg, data)]
        /\ UNCHANGED <<cfg, rng, prevPsa, calls, integrator, constructed, threads>>

\* the incremental analysis of the table the aggregator has just returned;
\* given = FALSE is the call without a baseline_quintile argument
CallIcerByQuintile ==
    /\ last.op = "analyze_by_quintile"
    /\ \E given \in BOOLEAN, b \in QuintileSet :
        /\ given \/ b = DefaultBaselineQuintile
        /\ last' = [op |-> "compute_icer_by_quintile",
                    args |-> [quintile_results |-> last.res, given |-> given,
                              baseline_quintile |-> b],
                    res |-> compute_icer_by_quintile(last.res, b)]
    /\ UNCHANGED <<cfg, rng, prevPsa, calls, integrator, constructed, threads>>

NextPure ==
    \/ CallTotalCost
    \/ CallQaly
    \/ CallCer
    \/ CallIcer
    \/ CallAnalyzeByQuintile
    \/ CallIcerByQuintile

SpecPure == InitPure /\ [][NextPure]_vars

----------------------------------------------------------------------------
\* A session on one model instance: the constructor, then up to MaxCalls
\* calls of the sweeps.

BaseCases ==
    { [icu_los |-> Int2Num(15), ward_los |-> Int2Num(7), ecmo_days |-> Int2Num(8),
       survival_rate |-> Rat(11, 20)] }

ParamEntries ==
    { [name |-> "icu_cost_per_day",
       values |-> <<Int2Num(20000), Int2Num(30000), Int2Num(40000)>>],
      [name |-> "survival_rate", values |-> <<Rat(2, 5), Rat(11, 20), Rat(7, 10)>>],
      [name |-> "discount_rate", values |-> <<Zero, Rat(3, 100), Rat(1, 20)>>] }

DistEntries ==
    { [name |-> "icu_los", kind |-> "normal", params |-> <<Int2Num(15), Int2Num(3)>>],
      [name |-> "qaly_gain_per_survivor", kind |-> "uniform",
       params |-> <<One, Int2Num(2)>>] }

\* dicts of at most MaxParams entries, in every insertion order
DictsOver(entries) ==
    { d \in UNION { [1..n -> entries] : n \in 1..MaxParams } :
        \A i, j \in 1..Len(d) : i # j => d[i].name # d[j].name }

Init ==
    /\ cfg \in {c \in ConfigSet : c.time_horizon_years = 1}
    /\ rng \in 0..(RngPeriod - 1)
    /\ last = NoCall
    /\ prevPsa = NoCall
    /\ calls = 0
    /\ integrator = NewIntegrator
    /\ constructed = cfg
    /\ threads = NoThreads

CallSensitivity ==
    /\ calls < MaxCalls
    /\ \E base_case \in BaseCases, parameters \in DictsOver(ParamEntries) :
        LET out == sensitivity_analysis(cfg, base_case, parameters)
        IN  /\ last' = [op |-> "sensitivity_analysis",
                        args |-> [base_case |-> base_case, parameters |-> parameters],
                        pre |-> cfg,
                        res |-> out.rows]
            /\ cfg' = out.cfg
    /\ prevPsa' = IF last.op = "probabilistic_sensitivity_analysis" THEN last ELSE prevPsa
    /\ calls' = calls + 1
    /\ UNCHANGED <<rng, integrator, constructed, threads>>

CallPsa ==
    /\ calls < MaxCalls
    /\ \E base_case \in BaseCases, dists \in DictsOver(DistEntries),
          n \in 1..MaxSims, seed \in 0..MaxSeed :
        LET out == probabilistic_sensitivity_analysis(cfg, rng, base_case, dists, n, seed)
        IN  /\ last' = [op |-> "probabilistic_sensitivity_analysis",
                        args |-> [base_case |-> base_case,
                                  parameter_distributions |-> dists,
                                  n_simulations |-> n, seed |-> seed],
                        pre |-> cfg,
                        res |-> out.rows]
            /\ cfg' = out.cfg
            /\ rng' = out.rng
    /\ prevPsa' = IF last.op = "probabilistic_sensitivity_analysis" THEN last ELSE prevPsa
    /\ calls' = calls + 1
    /\ UNCHANGED <<integrator, constructed, threads>>

Next ==
    \/ CallSensitivity
    \/ CallPsa

Spec == Init /\ [][Next]_vars

----------------------------------------------------------------------------
\* The analyses that follow the aggregation, the two-way and Monte Carlo
\* sweeps on a model just constructed, the constructor and the data
\* integrator: a behaviour is one call (for the integrator, a load and the
\* preparation of the loaded table).

\* configurations whose discount factors have short exact representations
AnalysisConfigs ==
    { [DefaultConfig EXCEPT !.discount_rate = r] : r \in {Zero, Rat(1, 4)} }

\* cost and QALY of a stratum summary
StratumValues ==
    { [total_cost |-> Int2Num(545000), qaly |-> Rat(3, 2)],
      [total_cost |-> Int2Num(545000), qaly |-> Zero],
      [total_cost |-> Int2Num(175000), qaly |-> Rat(3, 4)] }

\* tables of at most MaxStrata summaries, one per quintile, ascending (the
\* columns compute_ceac reads)
StratumTables ==
    UNION { { [j \in 1..Cardinality(Q) |->
                  [quintile   |-> SortedSeq(Q)[j],
                   total_cost |-> v[j].total_cost,
                   qaly       |-> v[j].qaly]] :
              v \in [1..Cardinality(Q) -> StratumValues] } :
            Q \in {S \in SUBSET QuintileSet : Cardinality(S) \in 1..MaxStrata} }

WtpGrids ==
    { <<Zero, Int2Num(500000), Int2Num(3000000)>>,
      <<Int2Num(3000000), Int2Num(500000)>>,
      <<Int2Num(1500000)>> }

\* (cost_std_pct, qaly_std_pct): the defaults and a wide spread
StdPcts == { <<Rat(1, 5), Rat(3, 20)>>, <<Int2Num(2), Int2Num(2)>> }

VoiOutcomes ==
    { [total_cost |-> Int2Num(545000), qaly |-> Rat(3, 2)],
      [total_cost |-> Int2Num(545000), qaly |-> Rat(1, 1000)],
      [total_cost |-> Int2Num(1000000), qaly |-> Rat(1, 2)] }

\* a row of a table the PSA engine wrote (with the NMB columns) or of a
\* table holding iteration, total_cost, qaly and cer only
VoiRow(i, o, withNmb) ==
    LET r == PsaRow(i, [total_cost |-> o.total_cost, qaly |-> o.qaly,
                        cer |-> compute_cer(o.total_cost, o.qaly)])
    IN  IF withNmb THEN r ELSE [r EXCEPT !.nmb = <<>>]

VoiTables ==
    UNION { { [i \in 1..n |-> VoiRow(i - 1, f[i], withNmb)] :
              f \in [1..n -> VoiOutcomes], withNmb \in BOOLEAN } :
            n \in 1..MaxSims }

VoiThresholds == {Zero, Int2Num(1000), Int2Num(1500000)}

\* a threshold with a fractional part, asked of the tables the PSA engine
\* wrote
FractionalThresholds == {Rat(3000001, 2)}

PopulationSet == {0, 5, 100}

UptakeSet == {Zero, Rat(3, 10), Rat(1, 2), One}

ScenarioSet ==
    { [icu_los |-> Int2Num(20), ward_los |-> Int2Num(5), ecmo_days |-> Int2Num(10),
       survival_rate |-> Rat(1, 2)],
      [icu_los |-> Int2Num(15), ward_los |-> Int2Num(8), ecmo_days |-> Int2Num(7),
       survival_rate |-> Rat(13, 20)] }

TwoWayParams ==
    { [name |-> "icu_los", range |-> <<Int2Num(10), Int2Num(15), Int2Num(20)>>],
      [name |-> "survival_rate", range |-> <<Rat(2, 5), Rat(7, 10)>>],
      [name |-> "icu_cost_per_day", range |-> <<Int2Num(20000), Int2Num(40000)>>],
      [name |-> "discount_rate", range |-> <<Zero, Rat(1, 4)>>] }

\* declared parameters of a kind the engine does not know
UnknownDistEntries ==
    { [name |-> "ward_los", kind |-> "triangular",
       params |-> <<Int2Num(5), Int2Num(9)>>],
      [name |-> "ecmo_setup_cost", kind |-> "weibull",
       params |-> <<Int2Num(2), Int2Num(100000)>>] }

\* declared parameters whose normal distribution reaches below 0.001 and,
\* for the survival rate, above 1
ExtremeDicts ==
    LET survival == [name |-> "survival_rate", kind |-> "normal",
                     params |-> <<Rat(1, 2), One>>]
        ward     == [name |-> "ward_los", kind |-> "normal", params |-> <<Zero, One>>]
        gain     == [name |-> "qaly_gain_per_survivor", kind |-> "normal",
                     params |-> <<One, One>>]
    IN  { <<survival>>, <<ward>>, <<gain>>, <<ward, survival>> }

CurrencyInputs == {"TWD", "USD", "EUR", "JPY", "twd"}

\* column sets of a loaded patient table
PatientColumns ==
    { R \cup O : R \in SUBSET {required_cols[i] : i \in 1..Len(required_cols)},
                 O \in SUBSET {"mode", "total_cost"} }

InitAnalyses ==
    /\ cfg \in AnalysisConfigs
    /\ rng \in 0..(RngPeriod - 1)
    /\ last = NoCall
    /\ prevPsa = NoCall
    /\ calls = 0
    /\ integrator = NewIntegrator
    /\ constructed = cfg
    /\ threads = NoThreads

CallCeac ==
    /\ last.op = "none"
    /\ \E quintile_results \in StratumTables, wtp_thresholds \in WtpGrids,
          n \in 1..MaxSims, pct \in StdPcts :
        LET out == compute_ceac(quintile_results, wtp_thresholds, n, pct[1], pct[2], rng)
        IN  /\ last' = [op |-> "compute_ceac",
                        args |-> [quintile_results |-> quintile_results,
                                  wtp_thresholds |-> wtp_thresholds,
                                  n_simulations |-> n,
                                  cost_std_pct |-> pct[1], qaly_std_pct |-> pct[2]],
                        res |-> out.rows]
            /\ rng' = out.rng
    /\ UNCHANGED <<cfg, prevPsa, calls, integrator, constructed, threads>>

CallVoi ==
    /\ last.op = "none"
    /\ \E psa_results \in VoiTables,
          population_size \in PopulationSet, horizon \in 0..MaxYears :
      \E wtp \in VoiThresholds \cup
                  (IF psa_results[1].nmb # <<>> THEN FractionalThresholds ELSE {}) :
        last' = [op |-> "value_of_information_analysis",
                 args |-> [psa_results |-> psa_results, wtp_threshold |-> wtp,
                           population_size |-> population_size,
                           time_horizon_years |-> horizon],
                 res |-> value_of_information_analysis(cfg, psa_results, wtp,
                                                       population_size, horizon)]
    /\ UNCHANGED <<cfg, rng, prevPsa, calls, integrator, constructed, threads>>

\* variant: the call keeps its number of years as the model's time horizon
CallBudgetImpact_StoresYears ==
    /\ last.op = "none"
    /\ \E current_scenario \in ScenarioSet, new_scenario \in ScenarioSet,
          population_size \in PopulationSet, uptake_rate \in UptakeSet,
          years \in 1..MaxYears :
        /\ last' = [op |-> "budget_impact_analysis",
                    args |-> [current_scenario |-> current_scenario,
                              new_scenario |-> new_scenario,
                              population_size |-> population_size,
                              uptake_rate |-> uptake_rate, years |-> years],
                    res |-> budget_impact_analysis(cfg, current_scenario, new_scenario,
                                                   population_size, uptake_rate, years)]
        /\ cfg' = [cfg EXCEPT !.time_horizon_years = years]
    /\ UNCHANGED <<rng, prevPsa, calls, integrator, constructed, threads>>

CallBudgetImpact ==
    /\ last.op = "none"
    /\ \E current_scenario \in ScenarioSet, new_scenario \in ScenarioSet,
          population_size \in PopulationSet, uptake_rate \in UptakeSet,
          years \in 1..MaxYears :
        last' = [op |-> "budget_impact_analysis",
                 args |-> [current_scenario |-> current_scenario,
                           new_scenario |-> new_scenario,
                           population_size |-> population_size,
                           uptake_rate |-> uptake_rate, years |-> years],
                 res |-> budget_impact_analysis(cfg, current_scenario, new_scenario,
                                                population_size, uptake_rate, years)]
    /\ UNCHANGED <<cfg, rng, prevPsa, calls, integrator, constructed, threads>>

CallTwoWay ==
    /\ last.op = "none"
    /\ \E base_case \in BaseCases, p1 \in TwoWayParams, p2 \in TwoWayParams :
        /\ p1.name # p2.name
        /\ LET out == two_way_sensitivity_analysis(cfg, base_case, p1.name, p1.range,
                                                   p2.name, p2.range)
           IN  /\ last' = [op |-> "two_way_sensitivity_analysis",
                           args |-> [base_case |-> base_case,
                                     param1_name |-> p1.name, param1_range |-> p1.range,
                                     param2_name |-> p2.name, param2_range |-> p2.range],
                           pre |-> cfg,
                           res |-> out.rows]
               /\ cfg' = out.cfg
    /\ UNCHANGED <<rng, prevPsa, calls, integrator, constructed, threads>>

\* a Monte Carlo run whose distributions may name kinds the engine does not
\* know, or reach outside the range a parameter can take
CallPsaDeclared ==
    /\ last.op = "none"
    /\ \E base_case \in BaseCases,
          dists \in DictsOver(DistEntries \cup UnknownDistEntries) \cup ExtremeDicts,
          n \in 1..MaxSims, seed \in 0..MaxSeed :
        LET out == probabilistic_sensitivity_analysis(cfg, rng, base_case, dists, n, seed)
        IN  /\ last' = [op |-> "probabilistic_sensitivity_analysis",
                        args |-> [base_case |-> base_case,
                                  parameter_distributions |-> dists,
                                  n_simulations |-> n, seed |-> seed],
                        pre |-> cfg,
                        res |-> out.rows,
                        warnings |-> PsaWarnings(dists, n)]
            /\ cfg' = out.cfg
            /\ rng' = out.rng
    /\ UNCHANGED <<prevPsa, calls, integrator, constructed, threads>>

\* the constructor called with a currency code; the model under analysis is
\* another instance
Construct ==
    /\ last.op = "none"
    /\ \E currency \in CurrencyInputs :
        last' = [op |-> "__init__",
                 args |-> [currency |-> currency],
                 res |-> ECMOCostEffectivenessAnalysis(currency)]
    /\ UNCHANGED <<cfg, rng, prevPsa, calls, integrator, constructed, threads>>

\* load_patient_data binds patient_data to the table read
LoadPatientData ==
    /\ last.op = "none"
    /\ \E columns \in PatientColumns :
        /\ integrator' = [integrator EXCEPT
                             !.patient_data = [loaded |-> TRUE, columns |-> columns]]
        /\ last' = [op |-> "load_patient_data", args |-> <<>>, res |-> columns]
    /\ UNCHANGED <<cfg, rng, prevPsa, calls, constructed, threads>>

PrepareForCea ==
    /\ last.op \in {"none", "load_patient_data"}
    /\ LET out == prepare_for_cea(integrator)
       IN  /\ integrator' = out.integrator
           /\ last' = [op |-> "prepare_for_cea",
                       args |-> [integrator |-> integrator],
                       res |-> [raised |-> out.raised, error |-> out.error,
                                missing |-> out.missing]]
    /\ UNCHANGED <<cfg, rng, prevPsa, calls, constructed, threads>>

\* the demonstration's cumulative figures, derived from the table the budget
\* call returned
SummarizeBudget ==
    /\ last.op = "budget_impact_analysis"
    /\ last' = [op |-> "cumulative_impact",
                args |-> [budget_results |-> last.res],
                res |-> CumulativeImpact(last.res)]
    /\ UNCHANGED <<cfg, rng, prevPsa, calls, integrator, constructed, threads>>

NextAnalyses ==
    \/ CallCeac
    \/ CallVoi
    \/ CallBudgetImpact
    \/ SummarizeBudget
    \/ CallTwoWay
    \/ CallPsaDeclared
    \/ Construct
    \/ LoadPatientData
    \/ PrepareForCea

SpecAnalyses == InitAnalyses /\ [][NextAnalyses]_vars

----------------------------------------------------------------------------
\* The operations that are no parameter sweep, on one model: one call per
\* behaviour (and the calls that take the table of the call before).

StatelessOps ==
    {"compute_total_cost", "compute_qaly", "compute_cer", "compute_icer",
     "analyze_by_quintile", "compute_icer_by_quintile", "compute_ceac",
     "value_of_information_analysis", "budget_impact_analysis"}

InitStateless ==
    /\ cfg \in AnalysisConfigs
    /\ rng = 0
    /\ last = NoCall
    /\ prevPsa = NoCall
    /\ calls = 0
    /\ integrator = NewIntegrator
    /\ constructed = cfg
    /\ threads = NoThreads

NextStateless ==
    \/ CallTotalCost
    \/ CallQaly
    \/ CallCer
    \/ CallIcer
    \/ CallAnalyzeByQuintile
    \/ CallIcerByQuintile
    \/ CallCeac
    \/ CallVoi
    \/ CallBudgetImpact

SpecStateless == InitStateless /\ [][NextStateless]_vars

----------------------------------------------------------------------------
\* The three sweep engines on the same inputs: one call per behaviour of the
\* one-way engine with one parameter, the two-way engine with two and the
\* PSA engine with one uniformly distributed parameter.

\* a base case may hold more than the four keys the engines read
SweepBaseCases ==
    BaseCases \cup
    { [icu_los |-> Int2Num(15), ward_los |-> Int2Num(7), ecmo_days |-> Int2Num(8),
       survival_rate |-> Rat(11, 20), icu_cost_per_day |-> Int2Num(30000)] }

SweepParams ==
    { [name |-> "icu_los", values |-> <<Int2Num(10), Int2Num(15), Int2Num(20)>>],
      [name |-> "survival_rate", values |-> <<Rat(2, 5), Rat(11, 20), Rat(7, 10)>>],
      [name |-> "icu_cost_per_day",
       values |-> <<Int2Num(20000), Int2Num(30000), Int2Num(40000)>>],
      [name |-> "qaly_gain_per_survivor", values |-> <<One, Rat(3, 2), Int2Num(2)>>] }

InitSweeps ==
    /\ cfg \in AnalysisConfigs
    /\ rng \in 0..(RngPeriod - 1)
    /\ last = NoCall
    /\ prevPsa = NoCall
    /\ calls = 0
    /\ integrator = NewIntegrator
    /\ constructed = cfg
    /\ threads = NoThreads

SweepOneWay ==
    /\ last.op = "none"
    /\ \E base_case \in SweepBaseCases, p \in SweepParams :
        LET out == sensitivity_analysis(cfg, base_case, <<p>>)
        IN  /\ last' = [op |-> "sensitivity_analysis",
                        args |-> [base_case |-> base_case, parameters |-> <<p>>],
                        pre |-> cfg,
                        res |-> out.rows]
            /\ cfg' = out.cfg
    /\ UNCHANGED <<rng, prevPsa, calls, integrator, constructed, threads>>

SweepTwoWay ==
    /\ last.op = "none"
    /\ \E base_case \in SweepBaseCases, p1 \in SweepParams, p2 \in SweepParams :
        /\ p1.name # p2.name
        /\ LET out == two_way_sensitivity_analysis(cfg, base_case, p1.name, p1.values,
                                                   p2.name, p2.values)
           IN  /\ last' = [op |-> "two_way_sensitivity_analysis",
                           args |-> [base_case |-> base_case,
                                     param1_name |-> p1.name, param1_range |-> p1.values,
                                     param2_name |-> p2.name, param2_range |-> p2.values],
                           pre |-> cfg,
                           res |-> out.rows]
               /\ cfg' = out.cfg
    /\ UNCHANGED <<rng, prevPsa, calls, integrator, constructed, threads>>

SweepPsa ==
    /\ last.op = "none"
    /\ \E base_case \in SweepBaseCases, p \in SweepParams,
          n \in 1..MaxSims, seed \in 0..MaxSeed :
        LET dists == << [name |-> p.name, kind |-> "uniform",
                         params |-> <<p.values[1], p.values[3]>>] >>
            out   == probabilistic_sensitivity_analysis(cfg, rng, base_case, dists,
                                                        n, seed)
        IN  /\ last' = [op |-> "probabilistic_sensitivity_analysis",
                        args |-> [base_case |-> base_case,
                                  parameter_distributions |-> dists,
                                  n_simulations |-> n, seed |-> seed],
                        pre |-> cfg,
                        res |-> out.rows]
            /\ cfg' = out.cfg
            /\ rng' = out.rng
    /\ UNCHANGED <<prevPsa, calls, integrator, constructed, threads>>

NextSweeps ==
    \/ SweepOneWay
    \/ SweepTwoWay
    \/ SweepPsa

SpecSweeps == InitSweeps /\ [][NextSweeps]_vars

----------------------------------------------------------------------------
\* A session as the demonstration runs it: on one constructed model up to
\* MaxCalls sweeps (one-way, two-way, Monte Carlo), then one of the analyses
\* that read the configuration or the generator.

SweepOps ==
    {"sensitivity_analysis", "two_way_sensitivity_analysis",
     "probabilistic_sensitivity_analysis"}

\* one patient per table
SessionTables == [1..1 -> PatientSet]

InitSession ==
    /\ cfg \in AnalysisConfigs
    /\ rng = 0
    /\ last = NoCall
    /\ prevPsa = NoCall
    /\ calls = 0
    /\ integrator = NewIntegrator
    /\ constructed = cfg
    /\ threads = NoThreads

SessionOneWay ==
    /\ calls < MaxCalls
    /\ last.op \in {"none"} \cup SweepOps
    /\ \E base_case \in BaseCases, p \in SweepParams :
        LET out == sensitivity_analysis(cfg, base_case, <<p>>)
        IN  /\ last' = [op |-> "sensitivity_analysis",
                        args |-> [base_case |-> base_case, parameters |-> <<p>>],
                        res |-> out.rows]
            /\ cfg' = out.cfg
    /\ calls' = calls + 1
    /\ UNCHANGED <<rng, prevPsa, integrator, constructed, threads>>

SessionTwoWay ==
    /\ calls < MaxCalls
    /\ last.op \in {"none"} \cup SweepOps
    /\ \E base_case \in BaseCases, p1 \in SweepParams, p2 \in SweepParams :
        /\ p1.name # p2.name
        /\ LET out == two_way_sensitivity_analysis(cfg, base_case, p1.name, p1.values,
                                                   p2.name, p2.values)
           IN  /\ last' = [op |-> "two_way_sensitivity_analysis",
                           args |-> [base_case |-> base_case,
                                     param1_name |-> p1.name, param1_range |-> p1.values,
                                     param2_name |-> p2.name, param2_range |-> p2.values],
                           res |-> out.rows]
               /\ cfg' = out.cfg
    /\ calls' = calls + 1
    /\ UNCHANGED <<rng, prevPsa, integrator, constructed, threads>>

SessionPsa ==
    /\ calls < MaxCalls
    /\ last.op \in {"none"} \cup SweepOps
    /\ \E base_case \in BaseCases, p \in SweepParams, seed \in 0..MaxSeed :
        LET dists == << [name |-> p.name, kind |-> "uniform",
                         params |-> <<p.values[1], p.values[3]>>] >>
            out   == probabilistic_sensitivity_analysis(cfg, rng, base_case, dists,
                                                        MaxSims, seed)
        IN  /\ last' = [op |-> "probabilistic_sensitivity_analysis",
                        args |-> [base_case |-> base_case,
                                  parameter_distributions |-> dists,
                                  n_simulations |-> MaxSims, seed |-> seed],
                        res |-> out.rows]
            /\ cfg' = out.cfg
            /\ rng' = out.rng
    /\ calls' = calls + 1
    /\ UNCHANGED <<prevPsa, integrator, constructed, threads>>

SessionAnalyzeByQuintile ==
    /\ last.op \in {"none"} \cup SweepOps
    /\ \E data \in SessionTables :
        last' = [op |-> "analyze_by_quintile",
                 args |-> [quintile_data |-> data],
                 res |-> analyze_by_quintile(cfg, data)]
    /\ UNCHANGED <<cfg, rng, prevPsa, calls, integrator, constructed, threads>>

SessionCeac ==
    /\ last.op \in {"none"} \cup SweepOps
    /\ \E quintile_results \in {t \in StratumTables : Len(t) = 1} :
        LET wtp_thresholds == <<Int2Num(1500000)>>
            out == compute_ceac(quintile_results, wtp_thresholds, MaxSims,
                                Rat(1, 5), Rat(3, 20), rng)
        IN  /\ last' = [op |-> "compute_ceac",
                        args |-> [quintile_results |-> quintile_results,
                                  wtp_thresholds |-> wtp_thresholds,
                                  n_simulations |-> MaxSims,
                                  cost_std_pct |-> Rat(1, 5),
                                  qaly_std_pct |-> Rat(3, 20)],
                        generator |-> rng,
                        res |-> out.rows]
            /\ rng' = out.rng
    /\ UNCHANGED <<cfg, prevPsa, calls, integrator, constructed, threads>>

SessionBudgetImpact ==
    /\ last.op \in {"none"} \cup SweepOps
    /\ \E current_scenario \in ScenarioSet, new_scenario \in ScenarioSet,
          years \in 1..2 :
        /\ current_scenario # new_scenario
        /\ last' = [op |-> "budget_impact_analysis",
                    args |-> [current_scenario |-> current_scenario,
                              new_scenario |-> new_scenario,
                              population_size |-> 100,
                              uptake_rate |-> Rat(1, 2), years |-> years],
                    res |-> budget_impact_analysis(cfg, current_scenario, new_scenario,
                                                   100, Rat(1, 2), years)]
    /\ UNCHANGED <<cfg, rng, prevPsa, calls, integrator, constructed, threads>>

NextSession ==
    \/ SessionOneWay
    \/ SessionTwoWay
    \/ SessionPsa
    \/ SessionAnalyzeByQuintile
    \/ SessionCeac
    \/ SessionBudgetImpact

SpecSession == InitSession /\ [][NextSession]_vars

----------------------------------------------------------------------------
\* Two one-way analyses on two threads, each over one parameter, interleaved
\* statement by statement: on one shared model instance or each on its own.
\* threads.inst holds the configuration of the instances (both constructed
\* with cfg), threads.th each thread's parameter, scenario index k, position
\* pc, local case and total_cost, and the rows appended so far.

ThreadIds == {1, 2}

ThreadParams ==
    { [name |-> "icu_cost_per_day",
       values |-> <<Int2Num(20000), Int2Num(30000), Int2Num(40000)>>],
      [name |-> "qaly_gain_per_survivor", values |-> <<One, Rat(3, 2), Int2Num(2)>>],
      [name |-> "survival_rate", values |-> <<Rat(2, 5), Rat(11, 20), Rat(7, 10)>>] }

\* the instance thread t works on
InstanceOf(shared, t) == IF shared THEN 1 ELSE t

\* variant: the attribute is set on the class, so on every instance
WriteAttr_OnClass(inst, i, name, value) ==
    [j \in DOMAIN inst |-> SetAttr(inst[j], name, value)]

\* setattr(self, param_name, value) on instance i
WriteAttr(inst, i, name, value) ==
    [inst EXCEPT ![i] = SetAttr(inst[i], name, value)]

StartThread(base_case, p) ==
    [param |-> p, k |-> 1, pc |-> "set", case |-> base_case,
     total_cost |-> Zero, rows |-> <<>>]

InitConcurrent ==
    /\ cfg \in AnalysisConfigs
    /\ rng = 0
    /\ last = NoCall
    /\ prevPsa = NoCall
    /\ calls = 0
    /\ integrator = NewIntegrator
    /\ constructed = cfg
    /\ threads \in { [shared    |-> shared,
                      inst      |-> <<cfg, cfg>>,
                      base_case |-> base_case,
                      th        |-> <<StartThread(base_case, p1),
                                      StartThread(base_case, p2)>>] :
                     shared \in BOOLEAN, base_case \in BaseCases,
                     p1 \in ThreadParams, p2 \in ThreadParams }

\* case = base_case.copy(), then the value goes into the case or onto the
\* instance
ThreadSet(t) ==
    LET me    == threads.th[t]
        value == me.param.values[me.k]
    IN  /\ me.pc = "set"
        /\ threads' =
             IF me.param.name \in CaseKeys
             THEN [threads EXCEPT
                      !.th[t].case = [threads.base_case EXCEPT ![me.param.name] = value],
                      !.th[t].pc   = "cost"]
             ELSE [threads EXCEPT
                      !.inst = WriteAttr(threads.inst, InstanceOf(threads.shared, t),
                                         me.param.name, value),
                      !.th[t].case = threads.base_case,
                      !.th[t].pc   = "cost"]
        /\ UNCHANGED <<cfg, rng, last, prevPsa, calls, integrator, constructed>>

\* total_cost = self.compute_total_cost(...)
ThreadCost(t) ==
    LET me   == threads.th[t]
        self == threads.inst[InstanceOf(threads.shared, t)]
    IN  /\ me.pc = "cost"
        /\ threads' = [threads EXCEPT
                          !.th[t].total_cost =
                              compute_total_cost(self, me.case.icu_los, me.case.ward_los,
                                                 me.case.ecmo_days),
                          !.th[t].pc = "qaly"]
        /\ UNCHANGED <<cfg, rng, last, prevPsa, calls, integrator, constructed>>

\* qaly = self.compute_qaly(...), the cer and the row; then the next
\* scenario or the end of the loop
ThreadQaly(t) ==
    LET me   == threads.th[t]
        self == threads.inst[InstanceOf(threads.shared, t)]
        qaly == compute_qaly(self, me.case.survival_rate, One)
        row  == [parameter |-> me.param.name, scenario |-> Scenarios[me.k],
                 value |-> me.param.values[me.k],
                 total_cost |-> me.total_cost, qaly |-> qaly,
                 cer |-> compute_cer(me.total_cost, qaly)]
    IN  /\ me.pc = "qaly"
        /\ threads' = [threads EXCEPT
                          !.th[t].rows = Append(me.rows, row),
                          !.th[t].k    = IF me.k < 3 THEN me.k + 1 ELSE me.k,
                          !.th[t].pc   = IF me.k < 3 THEN "set" ELSE "done"]
        /\ UNCHANGED <<cfg, rng, last, prevPsa, calls, integrator, constructed>>

NextConcurrent ==
    \E t \in ThreadIds :
        \/ ThreadSet(t)
        \/ ThreadCost(t)
        \/ ThreadQaly(t)

SpecConcurrent == InitConcurrent /\ [][NextConcurrent]_vars

----------------------------------------------------------------------------
\* Claims on the calculators and the aggregator (checked under SpecPure).

\* C1: compute_icer follows the sign convention: +inf when dqaly <= 0 and
\* dcost > 0, -inf when dqaly <= 0 and dcost <= 0, dcost/dqaly when
\* dqaly > 0; it never raises and never returns NaN.
C1_IcerSignConvention ==
    last.op = "compute_icer" =>
        LET a  == last.args
            dc == Sub(a.cost_intervention, a.cost_comparator)
            dq == Sub(a.qaly_intervention, a.qaly_comparator)
            r  == last.res
        IN  /\ (Le(dq, Zero) /\ Lt(Zero, dc)) => r = PosInf
            /\ (Le(dq, Zero) /\ Le(dc, Zero)) => r = NegInf
            /\ Lt(Zero, dq) => (IsFin(r) /\ Mul(r, dq) = dc)
            /\ r.k \notin {"nan", "raise"}

C1_Witness ==
    /\ last.op = "compute_icer"
    /\ last.args.cost_intervention = last.args.cost_comparator
    /\ last.args.qaly_intervention = last.args.qaly_comparator
    /\ last.res = NegInf

\* C2: compute_cer is +inf for every qaly <= 0 (also with cost 0) and
\* exactly cost/qaly for qaly > 0; it never raises and never returns NaN.
C2_CerTotal ==
    last.op = "compute_cer" =>
        LET a == last.args
            r == last.res
        IN  /\ Le(a.qaly, Zero) => r = PosInf
            /\ Lt(Zero, a.qaly) => (IsFin(r) /\ Mul(r, a.qaly) = a.total_cost)
            /\ r.k \notin {"nan", "raise"}

C2_Witness ==
    /\ last.op = "compute_cer"
    /\ last.args.qaly = Zero
    /\ last.args.total_cost = Zero
    /\ last.res = PosInf

\* C3: compute_total_cost is icu*icu_rate + ward*ward_rate + setup +
\* ecmo*ecmo_rate, hence linear and non-decreasing in each duration with the
\* other two fixed; with the default rates, (10, 5, 7) costs 545000.
C3_TotalCostLinear ==
    last.op = "compute_total_cost" =>
        LET a == last.args
            r == last.res
        IN  /\ r = Add(Mul(a.ecmo_days, cfg.ecmo_daily_consumable),
                       Add(cfg.ecmo_setup_cost,
                           Add(Mul(a.ward_los_days, cfg.ward_cost_per_day),
                               Mul(a.icu_los_days, cfg.icu_cost_per_day))))
            /\ \A d \in DaySet :
                /\ Sub(compute_total_cost(cfg, d, a.ward_los_days, a.ecmo_days), r)
                     = Mul(Sub(d, a.icu_los_days), cfg.icu_cost_per_day)
                /\ Sub(compute_total_cost(cfg, a.icu_los_days, d, a.ecmo_days), r)
                     = Mul(Sub(d, a.ward_los_days), cfg.ward_cost_per_day)
                /\ Sub(compute_total_cost(cfg, a.icu_los_days, a.ward_los_days, d), r)
                     = Mul(Sub(d, a.ecmo_days), cfg.ecmo_daily_consumable)
                /\ Le(a.icu_los_days, d) =>
                     Le(r, compute_total_cost(cfg, d, a.ward_los_days, a.ecmo_days))
                /\ Le(a.ward_los_days, d) =>
                     Le(r, compute_total_cost(cfg, a.icu_los_days, d, a.ecmo_days))
                /\ Le(a.ecmo_days, d) =>
                     Le(r, compute_total_cost(cfg, a.icu_los_days, a.ward_los_days, d))
            /\ ( /\ cfg.icu_cost_per_day = Int2Num(30000)
                 /\ cfg.ward_cost_per_day = Int2Num(8000)
                 /\ cfg.ecmo_daily_consumable = Int2Num(15000)
                 /\ cfg.ecmo_setup_cost = Int2Num(100000)
                 /\ a = [icu_los_days |-> Int2Num(10), ward_los_days |-> Int2Num(5),
                         ecmo_days |-> Int2Num(7)] )
               => r = Int2Num(545000)

C3_Witness ==
    /\ last.op = "compute_total_cost"
    /\ last.args = [icu_los_days |-> Int2Num(10), ward_los_days |-> Int2Num(5),
                    ecmo_days |-> Int2Num(7)]
    /\ last.res = Int2Num(545000)

\* C4: compute_qaly is survival * gain * quality * (1+rate)^(-horizon), one
\* end-of-horizon factor; survival 1, gain 1.5, rate 0, horizon 1 gives
\* exactly 1.5; the result is >= 0 for inputs >= 0.
C4_QalyFormula ==
    last.op = "compute_qaly" =>
        LET a == last.args
            r == last.res
            f == Pow(Div(One, Add(One, cfg.discount_rate)), cfg.time_horizon_years)
        IN  /\ r = Mul(f, Mul(a.quality_of_life,
                              Mul(cfg.qaly_gain_per_survivor, a.survival_rate)))
            /\ Le(Zero, r)
            /\ ( /\ a.survival_rate = One /\ a.quality_of_life = One
                 /\ cfg.qaly_gain_per_survivor = Rat(3, 2)
                 /\ cfg.discount_rate = Zero /\ cfg.time_horizon_years = 1 )
               => r = Rat(3, 2)

C4_Witness ==
    /\ last.op = "compute_qaly"
    /\ last.args.survival_rate = One /\ last.args.quality_of_life = One
    /\ cfg.discount_rate = Zero /\ cfg.time_horizon_years = 1
    /\ last.res = Rat(3, 2)

\* C8: in the table compute_icer_by_quintile returns, the baseline row has
\* icer = 0 and zero increments by convention, every other row has
\* icer = compute_icer(its cost, baseline cost, its qaly, baseline qaly)
\* and the differences to the baseline; one row per input stratum.
C8_BaselineConvention ==
    (last.op = "compute_icer_by_quintile" /\ last.res.ok) =>
        LET t    == last.args.quintile_results
            b    == last.args.baseline_quintile
            rows == last.res.rows
            base == t[CHOOSE i \in 1..Len(t) : t[i].quintile = b]
        IN  /\ Len(rows) = Len(t)
            /\ \A i \in 1..Len(t) :
                /\ rows[i].quintile = t[i].quintile
                /\ t[i].quintile = b =>
                     /\ rows[i].icer_vs_baseline = Zero
                     /\ rows[i].incremental_cost = Zero
                     /\ rows[i].incremental_qaly = Zero
                /\ t[i].quintile # b =>
                     /\ rows[i].icer_vs_baseline =
                            compute_icer(t[i].total_cost, base.total_cost,
                                         t[i].qaly, base.qaly)
                     /\ Add(rows[i].incremental_cost, base.total_cost) = t[i].total_cost
                     /\ Add(rows[i].incremental_qaly, base.qaly) = t[i].qaly

C8_Witness ==
    /\ last.op = "compute_icer_by_quintile"
    /\ last.res.ok
    /\ Len(last.res.rows) = 3
    /\ last.args.baseline_quintile = 2
    /\ last.res.rows[2].icer_vs_baseline = Zero
    /\ last.res.rows[2].incremental_cost = Zero
    /\ last.res.rows[1].icer_vs_baseline = PosInf
    /\ last.res.rows[3].incremental_cost # Zero

\* C9: called without a baseline, compute_icer_by_quintile takes the lowest
\* observed quintile as the baseline and returns one incremental result per
\* stratum, for every non-empty set of observed quintiles.
C9_DefaultBaselineLowest ==
    ( /\ last.op = "compute_icer_by_quintile"
      /\ ~last.args.given
      /\ Len(last.args.quintile_results) > 0 ) =>
        LET t   == last.args.quintile_results
            low == CHOOSE i \in 1..Len(t) : \A j \in 1..Len(t) : t[i].quintile <= t[j].quintile
        IN  /\ last.res.ok
            /\ Len(last.res.rows) = Len(t)
            /\ last.res.rows[low].icer_vs_baseline = Zero
            /\ \A i \in 1..Len(t) :
                 /\ last.res.rows[i].incremental_cost =
                        Sub(t[i].total_cost, t[low].total_cost)
                 /\ last.res.rows[i].incremental_qaly = Sub(t[i].qaly, t[low].qaly)

\* C10: analyze_by_quintile returns one summary per distinct quintile, in
\* ascending order whatever the input order; n_patients counts the records
\* of the quintile (the counts sum to the number of records); total_cost and
\* qaly are compute_total_cost and compute_qaly of the quintile's means.
C10_OneSummaryPerQuintile ==
    last.op = "analyze_by_quintile" =>
        LET data == last.args.quintile_data
            rows == last.res
            Q    == {data[k].risk_quintile : k \in 1..Len(data)}
            Of(q) == {k \in 1..Len(data) : data[k].risk_quintile = q}
            total[i \in 0..Len(rows)] ==
                IF i = 0 THEN 0 ELSE total[i - 1] + rows[i].n_patients
            SumCol(q, col) ==
                LET g[k \in 0..Len(data)] ==
                        IF k = 0 THEN Zero
                        ELSE IF data[k].risk_quintile = q
                             THEN Add(g[k - 1], data[k][col]) ELSE g[k - 1]
                IN  g[Len(data)]
        IN  /\ Len(rows) = Cardinality(Q)
            /\ {rows[i].quintile : i \in 1..Len(rows)} = Q
            /\ \A i, j \in 1..Len(rows) : i < j => rows[i].quintile < rows[j].quintile
            /\ total[Len(rows)] = Len(data)
            /\ \A i \in 1..Len(rows) :
                LET r == rows[i]
                    n == Int2Num(r.n_patients)
                IN  /\ r.n_patients = Cardinality(Of(r.quintile))
                    /\ Mul(r.mean_icu_los_days, n) = SumCol(r.quintile, "icu_los_days")
                    /\ Mul(r.mean_ward_los_days, n) = SumCol(r.quintile, "ward_los_days")
                    /\ Mul(r.mean_ecmo_days, n) = SumCol(r.quintile, "ecmo_days")
                    /\ Mul(r.survival_rate, n) = SumCol(r.quintile, "survival_to_discharge")
                    /\ r.total_cost = compute_total_cost(cfg, r.mean_icu_los_days,
                                          r.mean_ward_los_days, r.mean_ecmo_days)
                    /\ r.qaly = compute_qaly(cfg, r.survival_rate, One)

C10_Witness ==
    /\ last.op = "analyze_by_quintile"
    /\ Len(last.args.quintile_data) = 3
    /\ last.args.quintile_data[1].risk_quintile = 3
    /\ last.args.quintile_data[2].risk_quintile = 1
    /\ last.args.quintile_data[3].risk_quintile = 3
    /\ last.args.quintile_data[1].icu_los_days # last.args.quintile_data[3].icu_los_days
    /\ Len(last.res) = 2
    /\ last.res[1].quintile = 1
    /\ last.res[2].n_patients = 2

\* C11: in analyze_by_quintile a quintile in which no patient survived
\* (survival 0, hence qaly 0) gets cer = +inf and cost_per_survivor = +inf;
\* no summary holds an exception or NaN, and the other quintiles' summaries
\* are those the table without that quintile's patients yields.
C11_ZeroSurvivalSentinel ==
    last.op = "analyze_by_quintile" =>
        LET data == last.args.quintile_data
            rows == last.res
        IN  \A i \in 1..Len(rows) :
                LET r == rows[i]
                IN  /\ \A f \in {"survival_rate", "total_cost", "qaly", "cer",
                                 "cost_per_survivor"} : r[f].k \notin {"nan", "raise"}
                    /\ r.survival_rate = Zero =>
                         /\ r.qaly = Zero
                         /\ r.cer = PosInf
                         /\ r.cost_per_survivor = PosInf
                         /\ SelectSeq(rows, LAMBDA x : x.quintile # r.quintile)
                              = analyze_by_quintile(cfg,
                                    SelectSeq(data,
                                        LAMBDA p : p.risk_quintile # r.quintile))

C11_Witness ==
    /\ last.op = "analyze_by_quintile"
    /\ Len(last.res) = 2
    /\ last.res[1].survival_rate = Zero
    /\ last.res[1].cer = PosInf
    /\ last.res[1].cost_per_survivor = PosInf
    /\ last.res[2].n_patients = 2
    /\ IsFin(last.res[2].cer)
    /\ IsFin(last.res[2].cost_per_survivor)

----------------------------------------------------------------------------
\* Claims on the sweeps (checked under Spec).

\* C5: two probabilistic_sensitivity_analysis runs with identical base case,
\* parameter distributions, n_simulations and seed produce identical output
\* tables, every row and column equal.
C5_PsaReproducible ==
    ( /\ last.op = "probabilistic_sensitivity_analysis"
      /\ prevPsa.op = "probabilistic_sensitivity_analysis"
      /\ last.args = prevPsa.args )
    => last.res = prevPsa.res

\* C6: every row of sensitivity_analysis for parameter p at value v carries
\* the total_cost, qaly and cer obtained with p = v and every other
\* parameter, case field or configuration field at its base-case value (the
\* value it had when the call was made), for any parameter map.
C6_RowsAtBaseCase ==
    last.op = "sensitivity_analysis" =>
        LET a    == last.args
            rows == last.res
        IN  /\ Len(rows) = 3 * Len(a.parameters)
            /\ \A k \in 1..Len(rows) :
                LET p    == a.parameters[((k - 1) \div 3) + 1]
                    v    == p.values[((k - 1) % 3) + 1]
                    case == IF p.name \in DOMAIN a.base_case
                            THEN [a.base_case EXCEPT ![p.name] = v] ELSE a.base_case
                    c    == IF p.name \in DOMAIN last.pre
                            THEN [last.pre EXCEPT ![p.name] = v] ELSE last.pre
                    cost == compute_total_cost(c, case.icu_los, case.ward_los,
                                               case.ecmo_days)
                    qaly == compute_qaly(c, case.survival_rate, One)
                IN  /\ rows[k].parameter = p.name
                    /\ rows[k].value = v
                    /\ rows[k].total_cost = cost
                    /\ rows[k].qaly = qaly
                    /\ rows[k].cer = compute_cer(cost, qaly)

\* C7: when sensitivity_analysis returns, every configuration attribute of
\* the model has the value it had immediately before the call.
C7_OverrideRestored ==
    last.op = "sensitivity_analysis" => cfg = last.pre

----------------------------------------------------------------------------
\* Claims on the analyses, the two-way and Monte Carlo sweeps, the
\* constructor and the integrator (checked under SpecAnalyses).

\* C12: every probability_cost_effective compute_ceac returns lies in
\* [0,1], for every stratum, threshold and outcome of the draws, and the
\* table has exactly one point per (stratum, threshold) pair.
C12_CeacProbabilityRange ==
    last.op = "compute_ceac" =>
        LET qr   == last.args.quintile_results
            wtp  == last.args.wtp_thresholds
            rows == last.res
        IN  /\ Len(rows) = Len(qr) * Len(wtp)
            /\ \A k \in 1..Len(rows) :
                 /\ IsFin(rows[k].probability_cost_effective)
                 /\ Le(Zero, rows[k].probability_cost_effective)
                 /\ Le(rows[k].probability_cost_effective, One)
            /\ \A j \in 1..Len(qr), t \in 1..Len(wtp) :
                 Cardinality({k \in 1..Len(rows) :
                                 /\ rows[k].quintile = qr[j].quintile
                                 /\ rows[k].wtp_threshold = wtp[t]}) = 1

C12_Witness ==
    /\ last.op = "compute_ceac"
    /\ Len(last.args.quintile_results) = 2
    /\ Len(last.res) = 6
    /\ last.args.n_simulations = 2
    /\ \E k \in 1..6 : last.res[k].probability_cost_effective = Rat(1, 2)
    /\ \E k \in 1..6 : last.res[k].probability_cost_effective = One
    /\ \E k \in 1..6 : last.res[k].probability_cost_effective = Zero

\* C13: within one compute_ceac result, for a stratum with mean QALY > 0
\* and thresholds w1 <= w2 of the grid, the probability at w2 is at least
\* the probability at w1 minus the tolerance 0.05.
C13_CeacMonotone ==
    last.op = "compute_ceac" =>
        LET qr   == last.args.quintile_results
            rows == last.res
        IN  \A j \in 1..Len(qr) : \A i, k \in 1..Len(rows) :
                ( /\ Lt(Zero, qr[j].qaly)
                  /\ rows[i].quintile = qr[j].quintile
                  /\ rows[k].quintile = qr[j].quintile
                  /\ Le(rows[i].wtp_threshold, rows[k].wtp_threshold) )
                => Le(Sub(rows[i].probability_cost_effective, Rat(1, 20)),
                      rows[k].probability_cost_effective)

C13_Witness ==
    /\ last.op = "compute_ceac"
    /\ last.args.wtp_thresholds[1] = Int2Num(3000000)
    /\ Len(last.args.wtp_thresholds) = 2
    /\ Lt(Zero, last.args.quintile_results[1].qaly)
    /\ last.res[1].probability_cost_effective = One
    /\ last.res[2].probability_cost_effective = Zero

\* C14: value_of_information_analysis returns evpi_per_person >= 0 and
\* evpi_population >= 0 for every non-empty PSA table, threshold,
\* population size >= 0 and horizon >= 0, whether the NMB values are all
\* negative, all equal or mixed.
C14_EvpiNonNegative ==
    last.op = "value_of_information_analysis" =>
        /\ IsFin(last.res.evpi_per_person)
        /\ Le(Zero, last.res.evpi_per_person)
        /\ IsFin(last.res.evpi_population)
        /\ Le(Zero, last.res.evpi_population)

C14_Witness ==
    /\ last.op = "value_of_information_analysis"
    /\ LET nmb == VoiNmb(last.args.psa_results, last.args.wtp_threshold)
       IN  /\ \E i \in 1..Len(nmb) : Lt(nmb[i], Zero)
           /\ \E i \in 1..Len(nmb) : Lt(Zero, nmb[i])
    /\ last.args.population_size = 100
    /\ last.args.time_horizon_years = 2
    /\ cfg.discount_rate = Rat(1, 4)
    /\ Lt(Zero, last.res.evpi_per_person)
    /\ last.res.evpi_population =
           Mul(last.res.evpi_per_person, Int2Num(180))

\* C15: in budget_impact_analysis with uptake_rate in [0,1] and years >= 1
\* the uptake of year y is min(uptake_rate*y/years, 1); across the rows it
\* is non-decreasing, never exceeds uptake_rate and equals uptake_rate in
\* the final year.
C15_UptakeRamp ==
    last.op = "budget_impact_analysis" =>
        LET a    == last.args
            rows == last.res
        IN  /\ Len(rows) = a.years
            /\ \A y \in 1..a.years :
                 /\ rows[y].year = y
                 /\ Le(rows[y].uptake_rate, One)
                 /\ Mul(rows[y].uptake_rate, Int2Num(a.years))
                      = Mul(a.uptake_rate, Int2Num(y))
                 /\ Le(rows[y].uptake_rate, a.uptake_rate)
                 /\ y > 1 => Le(rows[y - 1].uptake_rate, rows[y].uptake_rate)
            /\ rows[a.years].uptake_rate = a.uptake_rate

C15_Witness ==
    /\ last.op = "budget_impact_analysis"
    /\ last.args.years = 3
    /\ last.args.uptake_rate = Rat(1, 2)
    /\ last.res[1].uptake_rate = Rat(1, 6)
    /\ last.res[2].uptake_rate = Rat(1, 3)
    /\ last.res[3].uptake_rate = Rat(1, 2)

\* C16: in every year of budget_impact_analysis n_new = population*uptake(y)
\* and n_current = population*(1-uptake(y)), so n_new + n_current equals
\* population_size in every row, for every population size, uptake rate in
\* [0,1] and number of years.
C16_PopulationSplit ==
    last.op = "budget_impact_analysis" =>
        LET a    == last.args
            rows == last.res
        IN  \A y \in 1..Len(rows) :
                /\ Int2Num(rows[y].n_new_intervention)
                     = Mul(Int2Num(a.population_size), rows[y].uptake_rate)
                /\ Int2Num(rows[y].n_current_practice)
                     = Mul(Int2Num(a.population_size), Sub(One, rows[y].uptake_rate))
                /\ rows[y].n_new_intervention + rows[y].n_current_practice
                     = a.population_size

\* C17: a declared parameter whose distribution kind is none of normal,
\* lognormal, gamma, beta, uniform is skipped by
\* probabilistic_sensitivity_analysis with a warning and no exception: in
\* every iteration it keeps its base value, the other declared parameters
\* are sampled as they are without it, and the table has n_simulations rows.
C17_UnknownKindSkipped ==
    ( /\ last.op = "probabilistic_sensitivity_analysis"
      /\ \E j \in 1..Len(last.args.parameter_distributions) :
            last.args.parameter_distributions[j].kind \notin KnownKinds ) =>
        LET a       == last.args
            dists   == a.parameter_distributions
            known   == SelectSeq(dists, LAMBDA d : d.kind \in KnownKinds)
            unknown == SelectSeq(dists, LAMBDA d : d.kind \notin KnownKinds)
            rows    == last.res
        IN  /\ Len(rows) = a.n_simulations
            /\ \A i \in 1..Len(rows) :
                 \A f \in {"total_cost", "qaly", "cer"} : rows[i][f].k # "raise"
            /\ Len(last.warnings) = a.n_simulations * Len(unknown)
            /\ \A j \in 1..Len(unknown) :
                 /\ \E w \in 1..Len(last.warnings) : last.warnings[w] = unknown[j].kind
                 /\ unknown[j].name \in DOMAIN cfg =>
                        cfg[unknown[j].name] = last.pre[unknown[j].name]
            /\ rows = probabilistic_sensitivity_analysis(
                          last.pre, 0, a.base_case, known, a.n_simulations, a.seed).rows
            /\ known = <<>> =>
                 \A i \in 1..Len(rows) :
                     rows[i] = PsaRow(i - 1, Outcome(last.pre, a.base_case))

C17_Witness ==
    /\ last.op = "probabilistic_sensitivity_analysis"
    /\ Len(last.args.parameter_distributions) = 2
    /\ last.args.parameter_distributions[1].kind = "triangular"
    /\ last.args.parameter_distributions[1].name = "ward_los"
    /\ last.args.parameter_distributions[2].kind = "normal"
    /\ last.args.n_simulations = 2
    /\ Len(last.res) = 2
    /\ last.warnings = <<"triangular", "triangular">>
    /\ last.res[1].total_cost # last.res[2].total_cost

\* C18: two_way_sensitivity_analysis returns |range1| x |range2| rows, one
\* per point of the Cartesian product, and the row for (v1, v2) carries the
\* total_cost, qaly and cer evaluated with parameter 1 = v1, parameter 2 =
\* v2 and every other parameter at its base-case value.
C18_TwoWayGrid ==
    last.op = "two_way_sensitivity_analysis" =>
        LET a    == last.args
            rows == last.res
            n1   == Len(a.param1_range)
            n2   == Len(a.param2_range)
            With(rec, name, v) == IF name \in DOMAIN rec
                                  THEN [rec EXCEPT ![name] = v] ELSE rec
        IN  /\ Len(rows) = n1 * n2
            /\ \A i \in 1..n1, j \in 1..n2 :
                LET v1   == a.param1_range[i]
                    v2   == a.param2_range[j]
                    hits == {k \in 1..Len(rows) :
                                /\ rows[k].params[a.param1_name] = v1
                                /\ rows[k].params[a.param2_name] = v2}
                    case == With(With(a.base_case, a.param1_name, v1), a.param2_name, v2)
                    c    == With(With(last.pre, a.param1_name, v1), a.param2_name, v2)
                    cost == compute_total_cost(c, case.icu_los, case.ward_los,
                                               case.ecmo_days)
                    qaly == compute_qaly(c, case.survival_rate, One)
                IN  /\ hits = {(i - 1) * n2 + j}
                    /\ \A k \in hits :
                         /\ rows[k].total_cost = cost
                         /\ rows[k].qaly = qaly
                         /\ rows[k].cer = compute_cer(cost, qaly)

C18_Witness ==
    /\ last.op = "two_way_sensitivity_analysis"
    /\ last.args.param1_name = "icu_los"
    /\ last.args.param2_name = "discount_rate"
    /\ last.pre.discount_rate = Zero
    /\ Len(last.res) = 6
    /\ last.res[4].params["icu_los"] = Int2Num(15)
    /\ last.res[4].params["discount_rate"] = Rat(1, 4)
    /\ last.res[4].qaly = Rat(33, 50)
    /\ last.res[5].params["discount_rate"] = Zero
    /\ last.res[5].qaly = Rat(33, 40)

\* C19: constructing the model with a currency code other than TWD, USD or
\* EUR fails at construction time with a ValueError ("Unsupported
\* currency") and the caller gets no model instance; each of TWD, USD and
\* EUR is accepted and stored as the model's currency.
C19_CurrencyValidated ==
    last.op = "__init__" =>
        LET currency == last.args.currency
            r        == last.res
        IN  /\ currency \notin {"TWD", "USD", "EUR"} =>
                 /\ r.raised
                 /\ r.error = "ValueError: Unsupported currency"
                 /\ ~r.returned
            /\ currency \in {"TWD", "USD", "EUR"} =>
                 /\ ~r.raised
                 /\ r.returned
                 /\ r.currency = currency

C19_Witness ==
    /\ last.op = "__init__"
    /\ last.args.currency = "JPY"
    /\ last.res.raised
    /\ ~last.res.returned

\* C20: when the loaded patient table lacks any of the required columns
\* risk_quintile, icu_los_days, ward_los_days, ecmo_days,
\* survival_to_discharge, prepare_for_cea fails with an error that names
\* every missing column, before any cost is computed and without setting
\* the integrated dataset.
C20_MissingColumnsFatal ==
    ( /\ last.op = "prepare_for_cea"
      /\ last.args.integrator.patient_data.loaded
      /\ \E col \in {"risk_quintile", "icu_los_days", "ward_los_days", "ecmo_days",
                     "survival_to_discharge"} :
            col \notin last.args.integrator.patient_data.columns ) =>
        LET pre      == last.args.integrator
            required == {"risk_quintile", "icu_los_days", "ward_los_days",
                         "ecmo_days", "survival_to_discharge"}
        IN  /\ last.res.raised
            /\ last.res.error = "ValueError: Missing required columns"
            /\ {last.res.missing[i] : i \in 1..Len(last.res.missing)}
                 = required \ pre.patient_data.columns
            /\ integrator.patient_data = pre.patient_data
            /\ integrator.integrated_data = pre.integrated_data
            /\ ~integrator.integrated_data.loaded

C20_Witness ==
    /\ last.op = "prepare_for_cea"
    /\ last.args.integrator.patient_data.loaded
    /\ last.args.integrator.patient_data.columns
         = {"risk_quintile", "icu_los_days", "ecmo_days", "mode"}
    /\ last.res.raised
    /\ last.res.missing = <<"ward_los_days", "survival_to_discharge">>
    /\ "total_cost" \notin integrator.patient_data.columns
    /\ ~integrator.integrated_data.loaded

\* Under SpecAnalyses, as are C24, C25, C26, C28 and C30 below.
\* C27: budget_impact_analysis returns one row per year 1..years in ascending
\* order; in the row of year y the incremental budget is
\* (cost_new_per_patient - cost_current_per_patient) * n_new, the discounted
\* total and incremental budgets are the undiscounted ones times
\* (1 + discount_rate)^-(y-1), so year 1 is undiscounted, and each row is a
\* function of the configuration, the arguments and y alone.
C27_BudgetRows ==
    last.op = "budget_impact_analysis" =>
        LET a        == last.args
            rows     == last.res
            cost_cur == compute_total_cost(cfg, a.current_scenario.icu_los,
                                           a.current_scenario.ward_los,
                                           a.current_scenario.ecmo_days)
            cost_new == compute_total_cost(cfg, a.new_scenario.icu_los,
                                           a.new_scenario.ward_los,
                                           a.new_scenario.ecmo_days)
            factor(y) == Div(One, Pow(Add(One, cfg.discount_rate), y - 1))
        IN  /\ Len(rows) = a.years
            /\ \A y \in 1..a.years :
                /\ rows[y].year = y
                /\ rows[y].incremental_budget
                     = Mul(Sub(cost_new, cost_cur), Int2Num(rows[y].n_new_intervention))
                /\ rows[y].discounted_total_budget
                     = Mul(rows[y].total_budget, factor(y))
                /\ rows[y].discounted_incremental_budget
                     = Mul(rows[y].incremental_budget, factor(y))
                /\ rows[y] = BudgetYear(cfg, a.current_scenario, a.new_scenario,
                                        a.population_size, a.uptake_rate, a.years, y)
            /\ rows[1].discounted_total_budget = rows[1].total_budget
            /\ rows[1].discounted_incremental_budget = rows[1].incremental_budget

\* three years at a discount rate of 1/4: the third year's budgets are
\* 16/25 of the undiscounted ones
C27_Witness ==
    /\ last.op = "budget_impact_analysis"
    /\ cfg.discount_rate = Rat(1, 4)
    /\ last.args.years = 3
    /\ last.args.current_scenario # last.args.new_scenario
    /\ last.res[3].n_new_intervention = 50
    /\ last.res[3].incremental_budget # Zero
    /\ last.res[3].discounted_incremental_budget
         = Mul(last.res[3].incremental_budget, Rat(16, 25))
    /\ last.res[3].discounted_total_budget # last.res[3].total_budget

\* C30: in every year of budget_impact_analysis with at least one patient on
\* the new intervention the row's icer equals compute_icer of the
\* per-patient costs and QALYs of the two scenarios, with the ratio
\* calculator's dominance signs (+infinity dominated, -infinity cost-saving
\* without a QALY gain).
C30_BudgetIcerIsComputeIcer ==
    last.op = "budget_impact_analysis" =>
        LET a    == last.args
            rows == last.res
            cost_cur == compute_total_cost(cfg, a.current_scenario.icu_los,
                                           a.current_scenario.ward_los,
                                           a.current_scenario.ecmo_days)
            cost_new == compute_total_cost(cfg, a.new_scenario.icu_los,
                                           a.new_scenario.ward_los,
                                           a.new_scenario.ecmo_days)
            qaly_cur == compute_qaly(cfg, a.current_scenario.survival_rate, One)
            qaly_new == compute_qaly(cfg, a.new_scenario.survival_rate, One)
        IN  \A y \in 1..Len(rows) :
                rows[y].n_new_intervention >= 1 =>
                    rows[y].icer = compute_icer(cost_new, cost_cur, qaly_new, qaly_cur)

\* C28: the implied ICER of the budget impact is the incremental budget
\* divided by the incremental QALY when the QALY gain is > 0 and +infinity
\* whenever the QALY gain is <= 0 (also in a year with no patient on the new
\* intervention), in each year's icer field and in the multi-year average
\* ICER; it is never NaN and never a division error.
C28_ImpliedIcerGuarded ==
    /\ last.op = "budget_impact_analysis" =>
          \A y \in 1..Len(last.res) :
              LET row == last.res[y]
              IN  /\ row.icer.k \in {"fin", "pinf"}
                  /\ Lt(Zero, row.incremental_qaly) =>
                        /\ row.icer.k = "fin"
                        /\ Mul(row.icer, row.incremental_qaly) = row.incremental_budget
                  /\ Le(row.incremental_qaly, Zero) => row.icer = PosInf
                  /\ row.n_new_intervention = 0 => row.icer = PosInf
    /\ last.op = "cumulative_impact" =>
          LET rows  == last.args.budget_results
              total == SumSeq([y \in 1..Len(rows) |-> rows[y].discounted_incremental_budget])
              gain  == SumSeq([y \in 1..Len(rows) |-> rows[y].incremental_qaly])
          IN  /\ last.res.avg_icer.k \in {"fin", "pinf"}
              /\ Lt(Zero, gain) =>
                    /\ last.res.avg_icer.k = "fin"
                    /\ Mul(last.res.avg_icer, gain) = total
              /\ Le(gain, Zero) => last.res.avg_icer = PosInf

\* a table whose first year has nobody on the new intervention (icer
\* +infinity) and whose later years have a finite ratio, and its average
C28_Witness ==
    /\ last.op = "cumulative_impact"
    /\ Len(last.args.budget_results) = 3
    /\ last.args.budget_results[1].n_new_intervention = 0
    /\ last.args.budget_results[1].icer = PosInf
    /\ last.args.budget_results[3].icer.k = "fin"
    /\ last.res.avg_icer.k = "fin"
    /\ Lt(Zero, last.res.total_qaly_gain)

C25_SampledValuesClamped ==
    ( /\ last.op = "probabilistic_sensitivity_analysis"
      /\ \A j \in 1..Len(last.args.parameter_distributions) :
            last.args.parameter_distributions[j].kind \in KnownKinds ) =>
        LET a     == last.args
            dists == a.parameter_distributions
            K     == Len(dists)
            raw(i, j)  == Sample(dists[j].kind, dists[j].params,
                                 (a.seed + (i - 1) * K + (j - 1)) % RngPeriod)
            used(i, j) ==
                IF Lt(raw(i, j), Rat(1, 1000)) THEN Rat(1, 1000)
                ELSE IF dists[j].name = "survival_rate" /\ Lt(Rat(999, 1000), raw(i, j))
                     THEN Rat(999, 1000)
                     ELSE raw(i, j)
            at(i, nm)  == used(i, CHOOSE j \in 1..K : dists[j].name = nm)
            names      == {dists[j].name : j \in 1..K}
            case(i) == [k \in DOMAIN a.base_case |->
                           IF k \in names THEN at(i, k) ELSE a.base_case[k]]
            conf(i) == [k \in DOMAIN last.pre |->
                           IF k \in names THEN at(i, k) ELSE last.pre[k]]
        IN  /\ \A i \in 1..a.n_simulations, j \in 1..K :
                /\ Le(Rat(1, 1000), used(i, j))
                /\ dists[j].name = "survival_rate" => Le(used(i, j), Rat(999, 1000))
            /\ \A i \in 1..a.n_simulations :
                last.res[i] = PsaRow(i - 1, Outcome(conf(i), case(i)))
            /\ \A j \in 1..K :
                dists[j].name \in DOMAIN cfg =>
                    /\ Le(Rat(1, 1000), cfg[dists[j].name])
                    /\ cfg[dists[j].name] = used(a.n_simulations, j)

\* a ward stay drawn at -2 and then at 0 and a survival rate drawn at -1/2
\* and then at 3/2: the rows are those of 0.001 days and of the survival
\* rates 0.001 and 0.999
C25_Witness ==
    /\ last.op = "probabilistic_sensitivity_analysis"
    /\ last.args.seed = 0
    /\ last.args.n_simulations = 2
    /\ Len(last.args.parameter_distributions) = 2
    /\ last.args.parameter_distributions[1].name = "ward_los"
    /\ last.args.parameter_distributions[1].params = <<Zero, One>>
    /\ last.args.parameter_distributions[2].name = "survival_rate"
    /\ last.args.parameter_distributions[2].params = <<Rat(1, 2), One>>
    /\ last.res[1].qaly = compute_qaly(cfg, Rat(1, 1000), One)
    /\ last.res[2].qaly = compute_qaly(cfg, Rat(999, 1000), One)
    /\ last.res[1].total_cost
         = compute_total_cost(cfg, Int2Num(15), Rat(1, 1000), Int2Num(8))

\* C26: value_of_information_analysis uses the table's NMB column when one
\* matching the WTP threshold exists and recomputes wtp*qaly - total_cost per
\* row otherwise; either way, for a table of the PSA engine, the NMB used
\* for a row is wtp_threshold*qaly - total_cost of that row, and the result
\* is expected_nmb = mean(NMB), perfect_info_nmb = max(NMB),
\* evpi_per_person = max(0, perfect_info_nmb - expected_nmb) and
\* evpi_population = evpi_per_person * population_size *
\* sum over t = 0..horizon-1 of (1 + discount_rate)^(-t).
C26_VoiNmbOfThreshold ==
    last.op = "value_of_information_analysis" =>
        LET a    == last.args
            rows == a.psa_results
            used == VoiNmb(rows, a.wtp_threshold)
            nmb  == [i \in 1..Len(rows) |->
                        Sub(Mul(a.wtp_threshold, rows[i].qaly), rows[i].total_cost)]
            sum_discount ==
                SumSeq([k \in 1..a.time_horizon_years |->
                           Div(One, Pow(Add(One, cfg.discount_rate), k - 1))])
        IN  /\ \A i \in 1..Len(rows) : used[i] = nmb[i]
            /\ last.res.expected_nmb = Mean(nmb)
            /\ last.res.perfect_info_nmb = MaxSeq(nmb)
            /\ last.res.evpi_per_person
                 = Max(Zero, Sub(last.res.perfect_info_nmb, last.res.expected_nmb))
            /\ last.res.evpi_population
                 = Mul(Mul(last.res.evpi_per_person, Int2Num(a.population_size)),
                       sum_discount)

\* Under SpecSweeps.
\* C23: the two-way and the PSA engine resolve a parameter name as the
\* one-way engine does: icu_los, ward_los, ecmo_days and survival_rate are
\* substituted into the case and any other name is applied as a
\* model-configuration override, for every base case and every name; so
\* each engine's rows are the outcome of the case with its swept case keys
\* replaced and of the configuration with every other swept name
\* overridden, and the last override is what the model is left with.
C23_SameTarget ==
    LET names(asg)   == DOMAIN asg
        case(b, asg) == [k \in DOMAIN b |->
                            IF k \in names(asg) \cap CaseKeys THEN asg[k] ELSE b[k]]
        conf(c, asg) == [k \in DOMAIN c |->
                            IF k \in names(asg) \ CaseKeys THEN asg[k] ELSE c[k]]
        Agrees(row, asg) ==
            LET o == Outcome(conf(last.pre, asg), case(last.args.base_case, asg))
            IN  /\ row.total_cost = o.total_cost
                /\ row.qaly = o.qaly
                /\ row.cer = o.cer
    IN  /\ last.op = "sensitivity_analysis" =>
            LET p == last.args.parameters[1]
            IN  /\ \A s \in 1..3 : Agrees(last.res[s], p.name :> p.values[s])
                /\ cfg = conf(last.pre, p.name :> p.values[3])
        /\ last.op = "two_way_sensitivity_analysis" =>
            LET a  == last.args
                n1 == Len(a.param1_range)
                n2 == Len(a.param2_range)
                asg(i, j) == (a.param1_name :> a.param1_range[i])
                               @@ (a.param2_name :> a.param2_range[j])
            IN  /\ \A i \in 1..n1, j \in 1..n2 :
                      Agrees(last.res[(i - 1) * n2 + j], asg(i, j))
                /\ cfg = conf(last.pre, asg(n1, n2))
        /\ last.op = "probabilistic_sensitivity_analysis" =>
            LET a == last.args
                d == a.parameter_distributions[1]
                value(i) == Clamp(d.name, Sample(d.kind, d.params,
                                                 (a.seed + i - 1) % RngPeriod))
            IN  /\ \A i \in 1..a.n_simulations :
                      Agrees(last.res[i], d.name :> value(i))
                /\ cfg = conf(last.pre, d.name :> value(a.n_simulations))

\* Under SpecStateless.
\* C22: apart from the parameter sweeps every operation of the core is
\* stateless per call: compute_total_cost, compute_qaly, compute_cer,
\* compute_icer, analyze_by_quintile, compute_icer_by_quintile,
\* compute_ceac, value_of_information_analysis and budget_impact_analysis
\* leave every model-configuration attribute unchanged, and the table a
\* call is given is after the call the table the call before returned.
C22_StatelessPerCall ==
    [][ last'.op \in StatelessOps =>
          /\ cfg' = cfg
          /\ \A k \in ConfigAttrs : cfg'[k] = cfg[k]
          /\ last'.op = "compute_icer_by_quintile" =>
                /\ last.op = "analyze_by_quintile"
                /\ last'.args.quintile_results = last.res ]_vars

\* the stratum table of two patients after the incremental analysis, on a
\* model discounting at 1/4
C22_Witness ==
    /\ last.op = "compute_icer_by_quintile"
    /\ Len(last.args.quintile_results) = 2
    /\ last.res.ok
    /\ Len(last.res.rows) = 2
    /\ cfg.discount_rate = Rat(1, 4)
    /\ cfg.time_horizon_years = DefaultConfig.time_horizon_years

\* Under SpecSession.
\* C29: the result of analyze_by_quintile, compute_ceac and
\* budget_impact_analysis depends only on the call's arguments and on the
\* configuration given to the constructor: after any sequence of
\* sensitivity_analysis, two_way_sensitivity_analysis and
\* probabilistic_sensitivity_analysis calls on the same instance they
\* return what a freshly constructed instance with the same configuration
\* returns (for compute_ceac, from the same generator state).
C29_AnalysesAsOnFreshInstance ==
    /\ last.op = "analyze_by_quintile" =>
          last.res = analyze_by_quintile(constructed, last.args.quintile_data)
    /\ last.op = "compute_ceac" =>
          last.res = compute_ceac(last.args.quintile_results, last.args.wtp_thresholds,
                                  last.args.n_simulations, last.args.cost_std_pct,
                                  last.args.qaly_std_pct, last.generator).rows
    /\ last.op = "budget_impact_analysis" =>
          last.res = budget_impact_analysis(constructed, last.args.current_scenario,
                                            last.args.new_scenario,
                                            last.args.population_size,
                                            last.args.uptake_rate, last.args.years)

\* Under SpecConcurrent.
\* C21: two one-way analyses over model-configuration parameters that run
\* interleaved on one shared instance can compute a row with a value the
\* other analysis wrote, so that it differs from the row of the analysis
\* run alone; when each analysis has its own instance, every interleaving
\* yields the rows of the sequential runs: at every point the rows a thread
\* has appended are the first rows of its analysis run alone, and all of
\* them when it is done.
C21_OwnInstancesIsolated ==
    (threads # NoThreads /\ ~threads.shared) =>
        \A t \in ThreadIds :
            LET me    == threads.th[t]
                alone == sensitivity_analysis(constructed, threads.base_case,
                                              <<me.param>>).rows
            IN  /\ Len(me.rows) <= Len(alone)
                /\ me.rows = SubSeq(alone, 1, Len(me.rows))
                /\ me.pc = "done" => me.rows = alone

\* both analyses are done on a shared instance, one over the ICU day cost
\* and one over the QALY gain, and a row of the first carries a QALY the
\* analysis alone does not yield
C21_Witness ==
    /\ threads # NoThreads
    /\ threads.shared
    /\ \A t \in ThreadIds : threads.th[t].pc = "done"
    /\ threads.th[1].param.name = "icu_cost_per_day"
    /\ threads.th[2].param.name = "qaly_gain_per_survivor"
    /\ \E s \in 1..3 :
          /\ threads.th[1].rows[s].qaly
               # sensitivity_analysis(constructed, threads.base_case,
                                      <<threads.th[1].param>>).rows[s].qaly
          /\ threads.th[1].rows[s].qaly
               = compute_qaly([constructed EXCEPT !.qaly_gain_per_survivor = Int2Num(2)],
                              threads.base_case.survival_rate, One)

====
